---- MODULE Spec2Model ----
(***************************************************************************)
(* Purchase finalization and payment reconciliation of the storefront bot  *)
(* (src/payment.py).                                                       *)
(*                                                                         *)
(* Money is counted in whole cents.  The bot runs one cooperative event    *)
(* loop: a coroutine runs without interruption from one await to the next. *)
(* `running` names the flow that holds the loop inside such a segment (0   *)
(* when the loop is free), so the statements of one segment are separate   *)
(* steps here without other coroutines interleaving.  Functions handed to  *)
(* asyncio.to_thread run beside the loop and take no turn of it.           *)
(*                                                                         *)
(* The database is SQLite: `products`, `purchases`, `users`,               *)
(* `discount_codes` and `product_media` hold the committed tables, `tx`    *)
(* the working copy of the one open BEGIN EXCLUSIVE transaction.  A second *)
(* connection that needs the lock while a suspended coroutine holds it     *)
(* blocks the loop until SQLite gives up with "database is locked".        *)
(***************************************************************************)
EXTENDS Integers, Sequences, FiniteSets, TLC

\* ----------------------------------------------------------------- bounds
NumProducts == 2
NumFlows == 2
NumUsers == 2
MaxSnapshotLen == 2
NumCalls == 2
NumCancels == 2
NumCredits == 2
\* how often the gateway may confirm one invoice
MaxConfirmations == 2
\* how many injected failures (database errors, failed sends) one run may see
MaxFaults == 1

Products == 1..NumProducts
Flows == 1..NumFlows
Users == 1..NumUsers
Calls == 1..NumCalls
Cancels == 1..NumCancels
Credits == 1..NumCredits

\* the invocations of a worker callback that can be in flight together
NumWorkerCalls == 2
WorkerCalls == 1..NumWorkerCalls
\* the gateway numbers its invoices; each call obtains at most one
PaymentIds == 1..NumCalls

\* the operator's chat id (utils.ADMIN_ID); user ids are 1..NumUsers
ADMIN_ID == 999

NoCode == "None"
Codes == {"PROMO"}

\* price of a product in cents, as captured in a basket snapshot item
Price(p) == 1000 * p

\* an amount_to_deduct below zero, refused at line 867
InvalidAmount == -1

\* balance every user starts with, in cents (30.00)
InitBalance == 3000

\* percentages the reseller-discount lookup may return
ResellerDiscounts == {0, 10}

VARIABLES
    products,        \* table products: id -> [available, reserved]
    purchases,       \* table purchases: sequence of rows
    users,           \* table users: user_id -> [balance, total_purchases, basket]
    discount_codes,  \* table discount_codes: code -> uses_count
    product_media,   \* table product_media: product_id -> sequence of media types
    tx,              \* the open exclusive transaction, NoTx when none
    user_data,       \* context.user_data per user (the in-memory session)
    flows,           \* one record per purchase flow: inputs, locals, position
    outbox,          \* per flow, the messages it handed to send_message_with_retry
    running,         \* the flow that holds the event loop, 0 when it is free
    faults,          \* injected failures so far
    calls,           \* one record per invocation of handle_select_basket_crypto
    pending_deposits,    \* table pending_deposits: payment_id -> record
    gateway_invoices,    \* payment ids of the invoices the gateway created
    api_key_configured,  \* whether NOWPAYMENTS_API_KEY is set
    cancels,         \* one record per invocation of handle_cancel_crypto_payment
    payments,        \* per payment id, what has happened to it so far
    credits,         \* one record per invocation of process_successful_refill
                     \* or credit_user_balance
    admin_log,       \* the entries written by log_admin_action
    calc,            \* a function under study: its arguments and its result
    worker_data,     \* context.user_data of the worker (src/worker.py)
    added_products,  \* the product rows workers inserted, in order
    price_not_null,  \* whether the products table refuses a NULL price
    worker_calls,    \* one record per invocation of a worker callback that awaits
    worker_update    \* the worker update handled last: worker_panel, is_worker

vars == <<products, purchases, users, discount_codes, product_media, tx,
          user_data, flows, outbox, running, faults,
          calls, pending_deposits, gateway_invoices, api_key_configured,
          cancels, payments, credits, admin_log, calc,
          worker_data, added_products, price_not_null, worker_calls,
          worker_update>>

worker_vars ==
    <<worker_data, added_products, price_not_null, worker_calls, worker_update>>

cancel_vars == <<cancels, payments>>

credit_vars == <<credits, admin_log>>

invoice_vars == <<calls, pending_deposits, gateway_invoices, api_key_configured>>

dbvars == <<products, purchases, users, discount_codes>>

NoTx == [owner |-> 0]

\* ------------------------------------------------------------ pure helpers
RECURSIVE SeqSum(_)
SeqSum(s) == IF s = <<>> THEN 0 ELSE Head(s) + SeqSum(Tail(s))

Range(s) == {s[i] : i \in DOMAIN s}

\* duplicate-free sequences over S of length at most n: a basket holds a
\* single-unit product at most once
InjSeqs(S, n) ==
    {s \in UNION {[1..k -> S] : k \in 0..n} :
        \A i, j \in DOMAIN s : i # j => s[i] # s[j]}

SnapshotTotal(snap) == SeqSum([i \in DOMAIN snap |-> Price(snap[i])])

\* the discounted price itself rounded down to the cent
PricePaid_RoundsPriceDown(price, pct) == (price * (100 - pct)) \div 100

\* line 641-642: the reseller discount is rounded down to the cent and
\* subtracted from the original price
PricePaid(price, pct) == price - ((price * pct) \div 100)

\* the decrement without its stock guard
ClaimMatches_NoStockGuard(prods, pid) == pid \in DOMAIN prods

\* line 623: UPDATE products SET available = available - 1
\*           WHERE id = ? AND available > 0  -- does the WHERE clause match
ClaimMatches(prods, pid) == pid \in DOMAIN prods /\ prods[pid].available > 0

\* the decrement leaving the stock as it was
ClaimUpdate_NoDecrement(prods, pid) == prods

ClaimUpdate(prods, pid) ==
    [prods EXCEPT ![pid].available = @ - 1]

\* the empty-result check left out
NoSurvivors_NeverChecked(to_insert) == FALSE

\* line 654: if not purchases_to_insert
NoSurvivors(to_insert) == to_insert = <<>>

\* the usage counter bumped whether or not a code was used
FinalizeWrites_CountsWithoutCode(t, uid, code, to_insert, stmts) ==
    LET t1 == IF stmts >= 1
              THEN [t EXCEPT !.purchases = @ \o to_insert] ELSE t
        t2 == IF stmts >= 2
              THEN [t1 EXCEPT !.users[uid].total_purchases = @ + Len(to_insert)]
              ELSE t1
        t3 == IF stmts >= 3
              THEN [t2 EXCEPT !.discount_codes =
                      [c \in DOMAIN @ |-> @[c] + 1]] ELSE t2
        t4 == IF stmts >= 4
              THEN [t3 EXCEPT !.users[uid].basket = <<>>] ELSE t3
    IN t4

\* the purchase counter raised by one for a finalization of any size
FinalizeWrites_CountsOnePurchase(t, uid, code, to_insert, stmts) ==
    LET t1 == IF stmts >= 1
              THEN [t EXCEPT !.purchases = @ \o to_insert] ELSE t
        t2 == IF stmts >= 2
              THEN [t1 EXCEPT !.users[uid].total_purchases = @ + 1]
              ELSE t1
        t3 == IF stmts >= 3 /\ code # NoCode /\ code \in DOMAIN t2.discount_codes
              THEN [t2 EXCEPT !.discount_codes[code] = @ + 1] ELSE t2
        t4 == IF stmts >= 4
              THEN [t3 EXCEPT !.users[uid].basket = <<>>] ELSE t3
    IN t4

\* lines 660-664: the statements between the loop and the commit, applied
\* to the working copy t; stmts is how many of them ran (4 = all)
FinalizeWrites(t, uid, code, to_insert, stmts) ==
    LET t1 == IF stmts >= 1
              THEN [t EXCEPT !.purchases = @ \o to_insert] ELSE t
        t2 == IF stmts >= 2
              THEN [t1 EXCEPT !.users[uid].total_purchases = @ + Len(to_insert)]
              ELSE t1
        t3 == IF stmts >= 3 /\ code # NoCode /\ code \in DOMAIN t2.discount_codes
              THEN [t2 EXCEPT !.discount_codes[code] = @ + 1] ELSE t2
        t4 == IF stmts >= 4
              THEN [t3 EXCEPT !.users[uid].basket = <<>>] ELSE t3
    IN t4

\* the error path keeping what the transaction had written so far
AfterRollback_KeepsWrites(committed, t) ==
    [products |-> t.products, purchases |-> t.purchases,
     users |-> t.users, discount_codes |-> t.discount_codes]

\* lines 669-676: what the committed tables are after the except/finally of
\* the finalization transaction ran with working copy t: rolled back
AfterRollback(committed, t) == committed

\* line 665: conn.commit()
AfterCommit(committed, t) ==
    [products |-> t.products, purchases |-> t.purchases,
     users |-> t.users, discount_codes |-> t.discount_codes]

\* the cleanup emptying the table
DeleteProducts_EveryRow(prods, ids) == [p \in {} |-> prods[p]]

\* line 837: DELETE FROM products WHERE id = ?  for every processed id
DeleteProducts(prods, ids) ==
    [p \in DOMAIN prods \ Range(ids) |-> prods[p]]

\* line 893: UPDATE users SET balance = balance - ?
DeductBalance(us, uid, amount) == [us EXCEPT ![uid].balance = @ - amount]

\* the finalization entered whether or not the deduction committed
ProceedsToFinalize_Always(db_balance_deducted) == TRUE

\* line 907: if db_balance_deducted
ProceedsToFinalize(db_balance_deducted) == db_balance_deducted

\* the check looking for the user's row only
InsufficientBalance_RowOnly(us, uid, amount) == uid \notin DOMAIN us

\* line 881: the balance check
InsufficientBalance(us, uid, amount) ==
    uid \notin DOMAIN us \/ us[uid].balance < amount

\* the refund statement never reaching the table
RefundBalance_Lost(us, uid, amount) == us

\* line 918: UPDATE users SET balance = balance + ?
RefundBalance(us, uid, amount) == [us EXCEPT ![uid].balance = @ + amount]

\* the operator never told about a failed refund
RefundFailureAlerts_Never(admin, chat_id) == FALSE

\* line 924: a failed refund is reported to the operator
RefundFailureAlerts(admin, chat_id) == admin # 0 /\ chat_id # 0

\* the operator never told about an unfinalized crypto payment
CryptoFailureAlerts_Never(admin, chat_id) == FALSE

\* lines 951, 967: a crypto payment that cannot be finalized is reported
CryptoFailureAlerts(admin, chat_id) == admin # 0 /\ chat_id # 0

\* the release taking a reservation back whether or not there is one
RECURSIVE UnreserveBasketItems_Unguarded(_, _)
UnreserveBasketItems_Unguarded(prods, snap) ==
    IF snap = <<>> THEN prods
    ELSE LET p == Head(snap)
             nxt == IF p \in DOMAIN prods
                    THEN [prods EXCEPT ![p].reserved = @ - 1]
                    ELSE prods
         IN UnreserveBasketItems_Unguarded(nxt, Tail(snap))

\* the reservation-release helper (user._unreserve_basket_items): every
\* snapshot item that still has a row and is reserved goes back to the pool
RECURSIVE UnreserveBasketItems(_, _)
UnreserveBasketItems(prods, snap) ==
    IF snap = <<>> THEN prods
    ELSE LET p == Head(snap)
             nxt == IF p \in DOMAIN prods /\ prods[p].reserved > 0
                    THEN [prods EXCEPT ![p].reserved = @ - 1]
                    ELSE prods
         IN UnreserveBasketItems(nxt, Tail(snap))

\* context.user_data is a dict: a function from the keys present
Has(d, k) == k \in DOMAIN d
Pop(d, keys) == [k \in DOMAIN d \ keys |-> d[k]]
Put(d, k, v) == [x \in DOMAIN d \cup {k} |-> IF x = k THEN v ELSE d[x]]

\* an optional value: <<>> is None, <<v>> is v
None == <<>>
Some(v) == <<v>>

DB == [products |-> products, purchases |-> purchases,
       users |-> users, discount_codes |-> discount_codes]

Msg(to, text, pid) == [to |-> to, text |-> text, pid |-> pid]

\* ------------------------------------------------------------------- Init
IdleFlow ==
    [pc |-> "idle", kind |-> "none", user_id |-> 0, basket_snapshot |-> <<>>,
     discount_code_used |-> NoCode, amount_to_deduct |-> 0,
     idx |-> 0, purchases_to_insert |-> <<>>, processed_product_ids |-> <<>>,
     db_balance_deducted |-> FALSE, finalize_success |-> "none",
     result |-> "none", media_details |-> <<>>,
     \* history of the flow, read by the properties only
     balance_before |-> 0, refund |-> "none", released |-> FALSE,
     fin_error |-> FALSE, fin_wrote |-> FALSE, post_fault |-> FALSE,
     discounts |-> <<>>, all_available |-> FALSE,
     \* a statement of the flow waited, on the event loop, for the lock
     blocked_loop |-> FALSE,
     \* how the DELETE of the claimed rows went: "none", "ok" or "failed"
     deleted |-> "none"]

IdleCall ==
    [pc |-> "idle", user_id |-> 0, pay_currency_code |-> "none",
     is_purchase |-> TRUE, price_amount |-> 0,
     basket_snapshot |-> <<>>, discount_code |-> NoCode,
     estimated_crypto_amount |-> 0, min_amount_api |-> 0,
     invoice_crypto_amount |-> 0, payment_id |-> 0, error |-> "none",
     snapshot_before_clear |-> None,
     \* history of the call, read by the properties only
     released |-> FALSE, condition |-> "none",
     \* an exception left create_nowpayments_payment and the handler
     raised |-> FALSE]

IdleCancel == [pc |-> "idle", user_id |-> 0, payment_id |-> None]

\* what the properties need to know of a payment id: how often its snapshot
\* was released, how often it was handed to the finalizer, whether its
\* cancellation has completed
NoPayment ==
    [released |-> 0, finalizations |-> 0, confirmations |-> 0,
     cancelled |-> FALSE]

IdleCredit ==
    [pc |-> "idle", entry |-> "none", user_id |-> 0, amount_eur |-> 0,
     is_decimal |-> TRUE, old_balance |-> 0, result |-> "none",
     \* history of the call, read by the properties only
     committed |-> FALSE, notified |-> FALSE]

NoCalc == [fn |-> "none"]

\* the worker's session before a drop is begun: no location chosen, no
\* price entered, no bulk list
NoWorkerData ==
    [state |-> "none", worker_size |-> FALSE, worker_drop_media |-> FALSE,
     worker_price |-> None,
     worker_bulk_product_type |-> FALSE, worker_bulk_drops |-> <<>>,
     \* how many drops were entered so far, read by the properties only
     entered |-> 0]

\* before any worker update was handled
NoWorkerUpdate == [worker_panel |-> FALSE, is_worker |-> TRUE]

\* an invocation of handle_worker_confirm_add_drop or
\* handle_worker_bulk_process: what it read from the session, the rows it
\* has written and not yet committed, and where it stands
IdleWorkerCall ==
    [pc |-> "idle", handler |-> "none", price |-> None,
     drops |-> <<>>, idx |-> 0, rows |-> <<>>, shares_list |-> FALSE,
     result |-> "none",
     \* history of the call, read by the properties only
     drop |-> 0, locked |-> FALSE]

\* the handler has returned: its locals are gone
Returned(cl, handler, result, locked) ==
    [IdleWorkerCall EXCEPT !.pc = "done", !.handler = handler,
                           !.result = result, !.drop = cl.drop,
                           !.locked = locked]

\* everything but the inventory and the function under study
InitRest ==
    /\ purchases = <<>>
    /\ users = [u \in Users |->
                  [balance |-> InitBalance, total_purchases |-> 0,
                   basket |-> <<((u - 1) % NumProducts) + 1>>]]
    /\ discount_codes = [c \in Codes |-> 0]
    /\ product_media = [p \in Products |->
                          IF p = 1 THEN <<"photo", "gif">> ELSE <<>>]
    /\ tx = NoTx
    /\ user_data = [u \in Users |->
                      [basket |-> <<((u - 1) % NumProducts) + 1>>,
                       applied_discount |-> "PROMO"]]
    /\ flows = [f \in Flows |-> IdleFlow]
    /\ outbox = [f \in Flows |-> <<>>]
    /\ running = 0
    /\ faults = 0
    /\ calls = [c \in Calls |-> IdleCall]
    /\ pending_deposits = <<>>
    /\ gateway_invoices = {}
    /\ api_key_configured = TRUE
    /\ cancels = [k \in Cancels |-> IdleCancel]
    /\ payments = [i \in PaymentIds |-> NoPayment]
    /\ credits = [k \in Credits |-> IdleCredit]
    /\ admin_log = <<>>
    /\ worker_data = NoWorkerData
    /\ added_products = <<>>
    /\ worker_calls = [k \in WorkerCalls |-> IdleWorkerCall]
    /\ worker_update = NoWorkerUpdate

\* every product in stock and reserved in a basket
InitBase ==
    /\ products = [p \in Products |-> [available |-> 1, reserved |-> 1]]
    /\ InitRest
    /\ price_not_null = TRUE

Init == InitBase /\ calc = NoCalc

\* ------------------------------------------------------- shared shorthands
Runnable(f) == running \in {0, f}

CanFail == faults < MaxFaults

SetDB(d) ==
    /\ products' = d.products
    /\ purchases' = d.purchases
    /\ users' = d.users
    /\ discount_codes' = d.discount_codes

Send(f, msgs) == outbox' = [outbox EXCEPT ![f] = @ \o msgs]

\* lines 680-681 and 853-854: the in-memory basket and discount are dropped
ClearSession(uid) ==
    user_data' = [user_data EXCEPT ![uid] =
                    Put(Pop(@, {"applied_discount"}), "basket", <<>>)]

\* what a statement that needs the database lock can meet: the lock held by
\* a suspended coroutine, an injected database error, or neither
LockOutcomes ==
    IF tx.owner # 0 THEN {"locked"}
    ELSE {"ok"} \cup (IF CanFail THEN {"error"} ELSE {})

\* what a statement inside the flow's own open transaction can meet
StmtOutcomes == {"ok"} \cup (IF CanFail THEN {"error"} ELSE {})

Bump(outcome) == faults' = IF outcome = "error" THEN faults + 1 ELSE faults

Min(a, b) == IF a < b THEN a ELSE b

\* ----------------------------------------------------------------- flows
\* A payment handler is invoked: user.handle_confirm_pay calls
\* process_purchase_with_balance, the webhook calls
\* process_successful_crypto_purchase.  Users are interchangeable, so flow f
\* is given one of the first f users.  The amount is the snapshot's total
\* or, for a balance payment, an amount the argument check refuses.
Start(f) ==
    /\ flows[f].pc = "idle"
    /\ \E kind \in {"balance", "crypto"}, u \in 1..Min(f, NumUsers),
          snap \in InjSeqs(Products, MaxSnapshotLen),
          code \in {NoCode} \cup Codes, valid \in BOOLEAN :
         LET amount == IF valid THEN SnapshotTotal(snap) ELSE InvalidAmount IN
         /\ ~valid => kind = "balance"
         /\ flows' = [flows EXCEPT ![f] =
                     [@ EXCEPT !.pc = IF kind = "balance" THEN "pb_begin"
                                      ELSE "cp_begin",
                               !.kind = kind, !.user_id = u,
                               !.basket_snapshot = snap,
                               !.discount_code_used = code,
                               !.amount_to_deduct = amount]]
    /\ UNCHANGED <<dbvars, product_media, invoice_vars, cancel_vars, credit_vars, calc, tx, user_data, outbox, running, faults, worker_vars>>

\* process_purchase_with_balance, lines 866-904: the argument checks and the
\* exclusive transaction that verifies and deducts the balance
process_purchase_with_balance_deduct(f) ==
    LET fl == flows[f] IN
    /\ fl.pc = "pb_begin"
    /\ Runnable(f)
    /\ IF fl.basket_snapshot = <<>> \/ fl.amount_to_deduct < 0
       THEN /\ flows' = [flows EXCEPT ![f].pc = "done", ![f].result = "False"]
            /\ running' = 0
            /\ UNCHANGED <<dbvars, faults>>
       ELSE \E outcome \in LockOutcomes :
            /\ Bump(outcome)
            /\ IF outcome # "ok"
               THEN \* except sqlite3.Error: rolled back, nothing deducted
                    /\ flows' = [flows EXCEPT
                          ![f].pc = IF ProceedsToFinalize(FALSE)
                                    THEN "fin_begin" ELSE "pb_unreserve",
                          ![f].blocked_loop = @ \/ outcome = "locked"]
                    /\ running' = IF ProceedsToFinalize(FALSE) THEN f ELSE 0
                    /\ UNCHANGED dbvars
               ELSE IF InsufficientBalance(users, fl.user_id, fl.amount_to_deduct)
               THEN /\ flows' = [flows EXCEPT ![f].pc = "pb_unreserve_low"]
                    /\ running' = 0
                    /\ UNCHANGED dbvars
               ELSE /\ users' = DeductBalance(users, fl.user_id, fl.amount_to_deduct)
                    /\ flows' = [flows EXCEPT
                          ![f].pc = IF ProceedsToFinalize(TRUE)
                                    THEN "fin_begin" ELSE "pb_unreserve",
                          ![f].db_balance_deducted = TRUE,
                          ![f].balance_before = users[fl.user_id].balance]
                    /\ running' = IF ProceedsToFinalize(TRUE) THEN f ELSE 0
                    /\ UNCHANGED <<products, purchases, discount_codes>>
    /\ UNCHANGED <<product_media, invoice_vars, cancel_vars, credit_vars, calc, tx, user_data, outbox, worker_vars>>

\* lines 887 and 935: asyncio.to_thread(_unreserve_basket_items, snapshot);
\* the thread waits for the database lock
unreserve_basket_items_thread(f) ==
    LET fl == flows[f] IN
    /\ fl.pc \in {"pb_unreserve", "pb_unreserve_low"}
    /\ tx.owner = 0
    /\ products' = UnreserveBasketItems(products, fl.basket_snapshot)
    /\ flows' = [flows EXCEPT
          ![f].pc = IF fl.pc = "pb_unreserve" THEN "pb_unreserved"
                    ELSE "pb_unreserved_low",
          ![f].released = TRUE]
    /\ UNCHANGED <<purchases, users, discount_codes, product_media, invoice_vars, cancel_vars, credit_vars, calc, tx,
                   user_data, outbox, running, faults, worker_vars>>

\* lines 889-890 and 937-938: the user is told, the flow returns False
process_purchase_with_balance_fail(f) ==
    LET fl == flows[f] IN
    /\ fl.pc \in {"pb_unreserved", "pb_unreserved_low"}
    /\ Runnable(f)
    /\ Send(f, <<Msg(fl.user_id,
                     IF fl.pc = "pb_unreserved_low" THEN "balance_changed_error"
                     ELSE "error_processing_purchase_contact_support", 0)>>)
    /\ flows' = [flows EXCEPT ![f].pc = "done", ![f].result = "False"]
    /\ running' = 0
    /\ UNCHANGED <<dbvars, product_media, invoice_vars, cancel_vars, credit_vars, calc, tx, user_data, faults, worker_vars>>

\* the except/finally of the finalization transaction (lines 669-676) and
\* the failure branch (lines 852-855): rolled back, session cleared, user told
FinalizeDbError(f, t) ==
    /\ SetDB(AfterRollback(DB, t))
    /\ tx' = NoTx
    /\ ClearSession(flows[f].user_id)
    /\ Send(f, <<Msg(flows[f].user_id,
                     "error_processing_purchase_contact_support", 0)>>)
    /\ flows' = [flows EXCEPT ![f].pc = "fin_failed", ![f].fin_error = TRUE,
                              ![f].fin_wrote = @ \/ AfterRollback(DB, t) # DB]
    /\ running' = 0

\* _finalize_purchase, lines 613-616: BEGIN EXCLUSIVE
finalize_purchase_begin(f) ==
    LET fl == flows[f] IN
    /\ fl.pc = "fin_begin"
    /\ Runnable(f)
    /\ \E outcome \in LockOutcomes :
         /\ Bump(outcome)
         /\ IF outcome = "ok"
            THEN /\ tx' = [owner |-> f, products |-> products,
                           purchases |-> purchases, users |-> users,
                           discount_codes |-> discount_codes]
                 /\ flows' = [flows EXCEPT
                       ![f].pc = "fin_loop", ![f].idx = 1,
                       ![f].all_available =
                           \A p \in Range(fl.basket_snapshot) :
                               p \in DOMAIN products /\ products[p].available = 1]
                 /\ running' = f
                 /\ UNCHANGED <<dbvars, user_data, outbox>>
            ELSE \* the lock is not this flow's: nothing of tx is touched
                 /\ UNCHANGED <<dbvars, tx>>
                 /\ ClearSession(fl.user_id)
                 /\ Send(f, <<Msg(fl.user_id,
                               "error_processing_purchase_contact_support", 0)>>)
                 /\ flows' = [flows EXCEPT
                       ![f].pc = "fin_failed", ![f].fin_error = TRUE,
                       ![f].blocked_loop = @ \/ outcome = "locked"]
                 /\ running' = 0
    /\ UNCHANGED <<product_media, invoice_vars, cancel_vars, credit_vars, calc, worker_vars>>

\* lines 619-627: the guarded decrement of one snapshot item
finalize_purchase_claim_item(f) ==
    LET fl == flows[f]
        pid == fl.basket_snapshot[fl.idx] IN
    /\ fl.pc = "fin_loop"
    /\ fl.idx <= Len(fl.basket_snapshot)
    /\ Runnable(f)
    /\ \E outcome \in StmtOutcomes :
         /\ Bump(outcome)
         /\ IF outcome = "error"
            THEN FinalizeDbError(f, tx)
            ELSE /\ IF ClaimMatches(tx.products, pid)
                    THEN /\ tx' = [tx EXCEPT !.products = ClaimUpdate(@, pid)]
                         /\ flows' = [flows EXCEPT ![f].pc = "fin_discount"]
                         /\ running' = 0
                    ELSE /\ flows' = [flows EXCEPT ![f].idx = @ + 1]
                         /\ running' = f
                         /\ UNCHANGED tx
                 /\ UNCHANGED <<dbvars, user_data, outbox>>
    /\ UNCHANGED <<product_media, invoice_vars, cancel_vars, credit_vars, calc, worker_vars>>

\* lines 631-652: the reseller discount is looked up in a thread while the
\* transaction stays open, then the purchase row is prepared
finalize_purchase_discount(f) ==
    LET fl == flows[f]
        pid == fl.basket_snapshot[fl.idx] IN
    /\ fl.pc = "fin_discount"
    /\ Runnable(f)
    /\ \E outcome \in StmtOutcomes :
         /\ Bump(outcome)
         /\ IF outcome = "error"
            THEN FinalizeDbError(f, tx)
            ELSE \E pct \in ResellerDiscounts :
                 /\ flows' = [flows EXCEPT
                       ![f].pc = "fin_loop",
                       ![f].idx = @ + 1,
                       ![f].purchases_to_insert =
                           Append(@, [user_id |-> fl.user_id,
                                      product_id |-> pid,
                                      price_paid |-> PricePaid(Price(pid), pct)]),
                       ![f].processed_product_ids = Append(@, pid),
                       ![f].discounts = Append(@, pct)]
                 /\ running' = f
                 /\ UNCHANGED <<dbvars, tx, user_data, outbox>>
    /\ UNCHANGED <<product_media, invoice_vars, cancel_vars, credit_vars, calc, worker_vars>>

\* lines 654-667: nothing claimed rolls back; otherwise the rows are
\* inserted, the counters updated, the stored basket emptied, and committed
finalize_purchase_write(f) ==
    LET fl == flows[f] IN
    /\ fl.pc = "fin_loop"
    /\ fl.idx > Len(fl.basket_snapshot)
    /\ Runnable(f)
    /\ IF NoSurvivors(fl.purchases_to_insert)
       THEN /\ SetDB(AfterRollback(DB, tx))
            /\ tx' = NoTx
            /\ Send(f, <<Msg(fl.user_id,
                             "error_processing_purchase_contact_support", 0)>>)
            /\ flows' = [flows EXCEPT
                  ![f].pc = "fin_failed",
                  ![f].fin_wrote = @ \/ AfterRollback(DB, tx) # DB]
            /\ running' = 0
            /\ UNCHANGED <<user_data, faults>>
       ELSE \E outcome \in StmtOutcomes :
            /\ Bump(outcome)
            /\ IF outcome = "error"
               THEN \E stmts \in 0..4 :
                      FinalizeDbError(f,
                          FinalizeWrites(tx, fl.user_id, fl.discount_code_used,
                                         fl.purchases_to_insert, stmts))
               ELSE /\ SetDB(AfterCommit(DB,
                          FinalizeWrites(tx, fl.user_id, fl.discount_code_used,
                                         fl.purchases_to_insert, 4)))
                    /\ tx' = NoTx
                    /\ ClearSession(fl.user_id)
                    /\ flows' = [flows EXCEPT
                          ![f].pc = "fin_fetch_media",
                          ![f].fin_wrote =
                              AfterCommit(DB,
                                  FinalizeWrites(tx, fl.user_id,
                                      fl.discount_code_used,
                                      fl.purchases_to_insert, 4)) # DB]
                    /\ running' = f
                    /\ UNCHANGED outbox
    /\ UNCHANGED <<product_media, invoice_vars, cancel_vars, credit_vars, calc, worker_vars>>


\* lines 683-705: the media rows of the claimed products are read (a failure
\* is logged and leaves media_details empty), then the success title is sent
finalize_purchase_fetch_media(f) ==
    LET fl == flows[f] IN
    /\ fl.pc = "fin_fetch_media"
    /\ Runnable(f)
    /\ \E outcome \in StmtOutcomes :
         /\ Bump(outcome)
         /\ flows' = [flows EXCEPT
               ![f].pc = "fin_deliver",
               ![f].idx = 1,
               ![f].media_details =
                   IF outcome = "ok"
                   THEN [p \in Range(fl.processed_product_ids) |-> product_media[p]]
                   ELSE <<>>,
               ![f].post_fault = @ \/ outcome = "error"]
    /\ Send(f, <<Msg(fl.user_id, "purchase_success", 0)>>)
    /\ running' = 0
    /\ UNCHANGED <<dbvars, product_media, invoice_vars, cancel_vars, credit_vars, calc, tx, user_data, worker_vars>>

IsPhotoOrVideo(m) == m \in {"photo", "video"}
IsGif(m) == m = "gif"

\* the pickup text handed over ahead of the product's media
DeliveryOf_TextFirst(uid, pid, media) ==
    <<Msg(uid, "pickup_details", pid)>>
    \o (IF SelectSeq(media, IsPhotoOrVideo) # <<>>
        THEN <<Msg(uid, "media_group", pid)>> ELSE <<>>)
    \o [i \in 1..Len(SelectSeq(media, IsGif)) |-> Msg(uid, "animation", pid)]

\* lines 722-822: what is handed to the chat for one claimed product: the
\* photo/video group, every animation, and always the pickup text last
DeliveryOf(uid, pid, media) ==
    (IF SelectSeq(media, IsPhotoOrVideo) # <<>>
     THEN <<Msg(uid, "media_group", pid)>> ELSE <<>>)
    \o [i \in 1..Len(SelectSeq(media, IsGif)) |-> Msg(uid, "animation", pid)]
    \o <<Msg(uid, "pickup_details", pid)>>

\* lines 707-822: one round of the delivery loop; a failed media send is
\* caught and logged
finalize_purchase_deliver_item(f) ==
    LET fl == flows[f]
        pid == fl.processed_product_ids[fl.idx]
        media == IF pid \in DOMAIN fl.media_details
                 THEN fl.media_details[pid] ELSE <<>> IN
    /\ fl.pc = "fin_deliver"
    /\ fl.idx <= Len(fl.processed_product_ids)
    /\ Runnable(f)
    /\ \E outcome \in StmtOutcomes :
         /\ Bump(outcome)
         /\ flows' = [flows EXCEPT ![f].idx = @ + 1,
                                   ![f].post_fault = @ \/ outcome = "error"]
    /\ Send(f, DeliveryOf(fl.user_id, pid, media))
    /\ running' = 0
    /\ UNCHANGED <<dbvars, product_media, invoice_vars, cancel_vars, credit_vars, calc, tx, user_data, worker_vars>>

\* lines 830-849: the claimed product rows are deleted on a connection of
\* their own (a failure is logged), then the thank-you message is sent
finalize_purchase_delete(f) ==
    LET fl == flows[f] IN
    /\ fl.pc = "fin_deliver"
    /\ fl.idx > Len(fl.processed_product_ids)
    /\ Runnable(f)
    /\ \E outcome \in LockOutcomes :
         /\ Bump(outcome)
         /\ products' = IF outcome = "ok"
                        THEN DeleteProducts(products, fl.processed_product_ids)
                        ELSE products
         /\ flows' = [flows EXCEPT ![f].pc = "fin_done",
                                   ![f].post_fault = @ \/ outcome # "ok",
                                   ![f].blocked_loop = @ \/ outcome = "locked",
                                   ![f].deleted = IF outcome = "ok" THEN "ok"
                                                  ELSE "failed"]
    /\ Send(f, <<Msg(fl.user_id, "thank_you", 0)>>)
    /\ running' = 0
    /\ UNCHANGED <<purchases, users, discount_codes, product_media, invoice_vars, cancel_vars, credit_vars, calc, tx, user_data, worker_vars>>

\* success made to depend on the delivery having gone through
FinalizeResult_NeedsDelivery(db_update_successful, delivery_failed) ==
    IF db_update_successful /\ ~delivery_failed THEN "ok" ELSE "fail"

\* lines 679, 851 and 856: _finalize_purchase returns db_update_successful,
\* whatever happened while delivering
FinalizeResult(db_update_successful, delivery_failed) ==
    IF db_update_successful THEN "ok" ELSE "fail"

\* _finalize_purchase returns to the coroutine that awaited it
finalize_purchase_return(f) ==
    LET fl == flows[f] IN
    /\ fl.pc \in {"fin_failed", "fin_done"}
    /\ Runnable(f)
    /\ flows' = [flows EXCEPT
          ![f].finalize_success = FinalizeResult(fl.pc = "fin_done", fl.post_fault),
          ![f].pc = IF fl.kind = "balance" THEN "pb_after" ELSE "cp_after"]
    /\ running' = f
    /\ UNCHANGED <<dbvars, product_media, invoice_vars, cancel_vars, credit_vars, calc, tx, user_data, outbox, faults, worker_vars>>

\* process_purchase_with_balance, lines 911-929: a failed finalization is
\* refunded on a connection of its own; a failed refund alerts the operator
process_purchase_with_balance_after(f) ==
    LET fl == flows[f]
        support == Msg(fl.user_id, "error_processing_purchase_contact_support", 0)
        refunded == Msg(fl.user_id, "error_processing_purchase_balance_refunded", 0)
        alert == Msg(ADMIN_ID, "critical_refund_failed", 0) IN
    /\ fl.pc = "pb_after"
    /\ Runnable(f)
    /\ IF fl.finalize_success = "ok"
       THEN /\ flows' = [flows EXCEPT ![f].pc = "done", ![f].result = "True"]
            /\ UNCHANGED <<users, outbox, faults>>
       ELSE \E outcome \in LockOutcomes :
            /\ Bump(outcome)
            /\ IF outcome = "ok"
               THEN /\ users' = RefundBalance(users, fl.user_id, fl.amount_to_deduct)
                    /\ Send(f, <<refunded>>)
                    /\ flows' = [flows EXCEPT ![f].pc = "done",
                                              ![f].result = "False",
                                              ![f].refund = "ok"]
               ELSE /\ users' = users
                    /\ Send(f, (IF RefundFailureAlerts(ADMIN_ID, fl.user_id)
                                THEN <<alert>> ELSE <<>>) \o <<support>>)
                    /\ flows' = [flows EXCEPT
                          ![f].pc = "done", ![f].result = "False",
                          ![f].refund = "failed",
                          ![f].blocked_loop = @ \/ outcome = "locked"]
    /\ running' = 0
    /\ UNCHANGED <<products, purchases, discount_codes, product_media, invoice_vars, cancel_vars, credit_vars, calc, tx, user_data, worker_vars>>

\* process_successful_crypto_purchase, lines 949-959: a confirmed payment
\* without a basket snapshot alerts the operator; otherwise it is finalized
process_successful_crypto_purchase_begin(f) ==
    LET fl == flows[f]
        alert == Msg(ADMIN_ID, "critical_basket_data_missing", 0) IN
    /\ fl.pc = "cp_begin"
    /\ Runnable(f)
    /\ IF fl.basket_snapshot = <<>>
       THEN /\ Send(f, IF CryptoFailureAlerts(ADMIN_ID, fl.user_id)
                       THEN <<alert>> ELSE <<>>)
            /\ flows' = [flows EXCEPT ![f].pc = "done", ![f].result = "False"]
            /\ running' = 0
       ELSE /\ flows' = [flows EXCEPT ![f].pc = "fin_begin"]
            /\ running' = f
            /\ UNCHANGED outbox
    /\ UNCHANGED <<dbvars, product_media, invoice_vars, cancel_vars, credit_vars, calc, tx, user_data, faults, worker_vars>>

\* lines 961-975: a failed finalization of a paid basket alerts the operator
process_successful_crypto_purchase_after(f) ==
    LET fl == flows[f]
        support == Msg(fl.user_id, "error_processing_purchase_contact_support", 0)
        alert == Msg(ADMIN_ID, "critical_finalization_failed", 0) IN
    /\ fl.pc = "cp_after"
    /\ Runnable(f)
    /\ IF fl.finalize_success = "ok"
       THEN /\ flows' = [flows EXCEPT ![f].pc = "done", ![f].result = "True"]
            /\ UNCHANGED outbox
       ELSE /\ Send(f, (IF CryptoFailureAlerts(ADMIN_ID, fl.user_id)
                        THEN <<alert>> ELSE <<>>) \o <<support>>)
            /\ flows' = [flows EXCEPT ![f].pc = "done", ![f].result = "False"]
    /\ running' = 0
    /\ UNCHANGED <<dbvars, product_media, invoice_vars, cancel_vars, credit_vars, calc, tx, user_data, faults, worker_vars>>

Next ==
    \E f \in Flows :
        \/ Start(f)
        \/ process_purchase_with_balance_deduct(f)
        \/ unreserve_basket_items_thread(f)
        \/ process_purchase_with_balance_fail(f)
        \/ finalize_purchase_begin(f)
        \/ finalize_purchase_claim_item(f)
        \/ finalize_purchase_discount(f)
        \/ finalize_purchase_write(f)
        \/ finalize_purchase_fetch_media(f)
        \/ finalize_purchase_deliver_item(f)
        \/ finalize_purchase_delete(f)
        \/ finalize_purchase_return(f)
        \/ process_purchase_with_balance_after(f)
        \/ process_successful_crypto_purchase_begin(f)
        \/ process_successful_crypto_purchase_after(f)

Spec == Init /\ [][Next]_vars

\* a step of flow f once it was invoked
FlowStep(f) ==
    \/ process_purchase_with_balance_deduct(f)
    \/ unreserve_basket_items_thread(f)
    \/ process_purchase_with_balance_fail(f)
    \/ finalize_purchase_begin(f)
    \/ finalize_purchase_claim_item(f)
    \/ finalize_purchase_discount(f)
    \/ finalize_purchase_write(f)
    \/ finalize_purchase_fetch_media(f)
    \/ finalize_purchase_deliver_item(f)
    \/ finalize_purchase_delete(f)
    \/ finalize_purchase_return(f)
    \/ process_purchase_with_balance_after(f)
    \/ process_successful_crypto_purchase_begin(f)
    \/ process_successful_crypto_purchase_after(f)

\* the event loop resumes every coroutine that is ready and the thread pool
\* runs every function handed to it; a statement that meets the database
\* lock returns when SQLite's busy timeout expires
SpecLive == Spec /\ \A f \in Flows : WF_vars(FlowStep(f))


\* ------------------------------------------------ the price paid
\* item prices, in cents, and whole reseller percentages
MaxPriceCents == 30
Percents == 0..100

InitPrice ==
    /\ InitBase
    /\ \E price \in 0..MaxPriceCents, pct \in Percents :
         calc = [fn |-> "price_paid", price |-> price, pct |-> pct, out |-> None]

\* _finalize_purchase, lines 631 and 640-644: the price paid for one item
finalize_purchase_price_paid ==
    /\ calc.fn = "price_paid"
    /\ calc.out = None
    /\ calc' = [calc EXCEPT !.out = Some(PricePaid(calc.price, calc.pct))]
    /\ UNCHANGED <<dbvars, product_media, tx, user_data, flows, outbox, running,
                   faults, invoice_vars, cancel_vars, credit_vars, worker_vars>>

NextPrice == finalize_purchase_price_paid

SpecPrice == InitPrice /\ [][NextPrice]_vars

\* ------------------------------------------------ workers adding drops
\* how many drops one bulk list holds and how many rows are added in all
MaxBulkDrops == 2
MaxAddedProducts == 3

\* lines 342 and 683: the highest price accepted, 10000 EUR, in cents
MaxWorkerPrice == 1000000

\* a Python float: a finite amount (held in cents), nan or inf
Finite(c) == [kind |-> "finite", cents |-> c]
NaN == [kind |-> "nan", cents |-> 0]
Inf == [kind |-> "inf", cents |-> 0]
\* what SQLite stores for a nan it is handed
NullPrice == [kind |-> "null", cents |-> 0]

\* the texts a worker sends as a price
PriceTexts ==
    {"25.50", "0", "-5", "5", "10000", "10000.01", "1e3", "nan", "inf", "abc"}

\* float(text): the value, or None for ValueError
ParseFloat(text) ==
    CASE text = "25.50" -> Some(Finite(2550))
      [] text = "0" -> Some(Finite(0))
      [] text = "-5" -> Some(Finite(-500))
      [] text = "5" -> Some(Finite(500))
      [] text = "10000" -> Some(Finite(1000000))
      [] text = "10000.01" -> Some(Finite(1000001))
      [] text = "1e3" -> Some(Finite(100000))
      [] text = "nan" -> Some(NaN)
      [] text = "inf" -> Some(Inf)
      [] OTHER -> None

\* float comparisons: every comparison with nan is false
FloatLeq(v, c) == v.kind = "finite" /\ v.cents <= c
FloatGt(v, c) == (v.kind = "finite" /\ v.cents > c) \/ v.kind = "inf"

\* lines 339-344 and 683: price <= 0 or price > 10000
PriceRejected(v) == FloatLeq(v, 0) \/ FloatGt(v, MaxWorkerPrice)

\* the messages a worker sends while adding in bulk
BulkTexts ==
    {"1g - 25.50", "1g 0", "2g 10000", "2g 10000.01", "1g -5", "1g nan",
     "1g 1e3", "hello"}

\* lines 654-675: the first of the three patterns that matches gives the
\* size and the digits of the price; None when none matches
BulkMatch(text) ==
    CASE text = "1g - 25.50" -> Some([size |-> "1g", number |-> "25.50"])
      [] text = "1g 0" -> Some([size |-> "1g", number |-> "0"])
      [] text = "2g 10000" -> Some([size |-> "2g", number |-> "10000"])
      [] text = "2g 10000.01" -> Some([size |-> "2g", number |-> "10000.01"])
      [] text = "1g -5" -> Some([size |-> "1g", number |-> "5"])
      [] OTHER -> None

\* lines 413-414 and 762-763: the row an INSERT creates for a price
ProductRow(v) ==
    [price |-> IF v.kind = "nan" THEN NullPrice ELSE v,
     available |-> 1, reserved |-> 0]

\* the INSERT is refused: a NULL price under a NOT NULL column
InsertRefused(v) == price_not_null /\ v.kind = "nan"

InitWorker ==
    /\ products = [p \in Products |-> [available |-> 1, reserved |-> 1]]
    /\ InitRest
    /\ price_not_null \in BOOLEAN
    /\ calc = NoCalc

worker_others ==
    <<dbvars, product_media, tx, user_data, flows, outbox, running, faults,
      invoice_vars, cancel_vars, credit_vars, calc, price_not_null>>

\* the permission check left out
AccessDenied_Never(is_worker) == FALSE

\* lines 40, 208, 240, 258, 291, 332, 389, 603, 647 and 729:
\* if not is_worker(user_id): return
AccessDenied(is_worker) == ~is_worker

\* the update being handled: whether it went to handle_worker_panel (the
\* target of the Cancel buttons) and what is_worker(user_id) answered for
\* its sender
Called(handler, is_worker) ==
    worker_update' = [worker_panel |-> handler = "handle_worker_panel",
                      is_worker |-> is_worker]

\* another invocation has written to the database and not yet committed:
\* it is suspended in a media download with its transaction open
WriteLocked(k) ==
    \E j \in WorkerCalls \ {k} :
        \/ worker_calls[j].pc = "media"
        \/ worker_calls[j].pc = "insert" /\ worker_calls[j].rows # <<>>

\* handle_worker_panel, lines 25-67: the menu is shown; this is also where
\* the Cancel buttons of the drop-entry prompts lead (lines 232, 246, 638)
handle_worker_panel ==
    /\ \E w \in BOOLEAN : Called("handle_worker_panel", w)
    /\ UNCHANGED <<worker_others, worker_data, added_products, worker_calls>>

\* handle_worker_size, lines 203-216 (the city, district and type were
\* chosen before): the details of the drop are asked for
handle_worker_size ==
    /\ \E w \in BOOLEAN :
         /\ Called("handle_worker_size", w)
         /\ IF AccessDenied(w)
            THEN UNCHANGED worker_data
            ELSE worker_data' = [worker_data EXCEPT
                                   !.worker_size = TRUE,
                                   !.state = "awaiting_worker_drop_details"]
    /\ UNCHANGED <<worker_others, added_products, worker_calls>>

\* handle_worker_custom_size, lines 235-249: the size is asked for
handle_worker_custom_size ==
    /\ \E w \in BOOLEAN :
         /\ Called("handle_worker_custom_size", w)
         /\ IF AccessDenied(w)
            THEN UNCHANGED worker_data
            ELSE worker_data' = [worker_data EXCEPT
                                   !.state = "awaiting_worker_custom_size"]
    /\ UNCHANGED <<worker_others, added_products, worker_calls>>

\* handle_worker_custom_size_message, lines 252-283: a size that is not
\* blank is kept and the details of the drop are asked for
handle_worker_custom_size_message ==
    /\ worker_data.state = "awaiting_worker_custom_size"
    /\ \E w \in BOOLEAN, blank \in BOOLEAN :
         /\ Called("handle_worker_custom_size_message", w)
         /\ IF AccessDenied(w) \/ blank
            THEN UNCHANGED worker_data
            ELSE worker_data' = [worker_data EXCEPT
                                   !.worker_size = TRUE,
                                   !.state = "awaiting_worker_drop_details"]
    /\ UNCHANGED <<worker_others, added_products, worker_calls>>

\* handle_worker_drop_details_message, lines 285-324: the text and the
\* media of the message are kept and the price is asked for
handle_worker_drop_details_message ==
    /\ worker_data.state = "awaiting_worker_drop_details"
    /\ \E w \in BOOLEAN, media \in BOOLEAN :
         /\ Called("handle_worker_drop_details_message", w)
         /\ IF AccessDenied(w)
            THEN UNCHANGED worker_data
            ELSE worker_data' = [worker_data EXCEPT
                                   !.worker_drop_media = media,
                                   !.state = "awaiting_worker_price"]
    /\ UNCHANGED <<worker_others, added_products, worker_calls>>

\* handle_worker_price_message, lines 326-353
handle_worker_price_message ==
    /\ worker_data.state = "awaiting_worker_price"
    /\ worker_data.entered < MaxAddedProducts
    /\ \E w \in BOOLEAN, text \in PriceTexts :
         LET price == ParseFloat(text) IN
         /\ Called("handle_worker_price_message", w)
         /\ IF AccessDenied(w) \/ price = None \/ PriceRejected(price[1])
            THEN UNCHANGED worker_data
            ELSE worker_data' = [worker_data EXCEPT !.worker_price = price,
                                                    !.state = "none",
                                                    !.entered = @ + 1]
    /\ UNCHANGED <<worker_others, added_products, worker_calls>>

\* line 403: if not all([..., size, price is not None])
MissingData(d) == ~d.worker_size \/ d.worker_price = None

\* the session left as it was after the insert
ClearWorkerKeys_KeepsDrop(d) == d

\* lines 450-453: every key that starts with worker_ is popped (the bulk
\* keys with them); state is not one of them
ClearWorkerKeys(d) ==
    [NoWorkerData EXCEPT !.state = d.state, !.entered = d.entered]

\* lines 446-453 and 470-475: conn.commit(), then the worker_ keys are
\* dropped; a failed commit leaves the table and the session as they were
ConfirmCommit(k, cl) ==
    \E commit_ok \in BOOLEAN :
        IF commit_ok
        THEN /\ added_products' = Append(added_products, ProductRow(cl.price[1]))
             /\ worker_data' = ClearWorkerKeys(worker_data)
             /\ worker_calls' = [worker_calls EXCEPT ![k] =
                                   Returned(cl, cl.handler, "added", FALSE)]
        ELSE /\ worker_calls' = [worker_calls EXCEPT ![k] =
                                   Returned(cl, cl.handler, "db_error", FALSE)]
             /\ UNCHANGED <<worker_data, added_products>>

\* handle_worker_confirm_add_drop, lines 384-416: the session is read and
\* the product row inserted; with media to save the handler is suspended
\* in the download (lines 421-444) with its transaction open, without it
\* commits at once
handle_worker_confirm_add_drop(k) ==
    LET cl == [worker_calls[k] EXCEPT
                 !.handler = "handle_worker_confirm_add_drop",
                 !.price = worker_data.worker_price,
                 !.drop = worker_data.entered] IN
    /\ worker_calls[k].pc = "idle"
    /\ Len(added_products) < MaxAddedProducts
    /\ \E w \in BOOLEAN :
         /\ Called("handle_worker_confirm_add_drop", w)
         /\ IF AccessDenied(w)
            THEN /\ worker_calls' = [worker_calls EXCEPT ![k] =
                       Returned(IdleWorkerCall, cl.handler, "denied", FALSE)]
                 /\ UNCHANGED <<worker_data, added_products>>
            ELSE IF MissingData(worker_data)
            THEN /\ worker_calls' = [worker_calls EXCEPT ![k] =
                       Returned(cl, cl.handler, "missing", FALSE)]
                 /\ UNCHANGED <<worker_data, added_products>>
            ELSE \E db_ok \in BOOLEAN :
                 IF \/ WriteLocked(k) \/ ~db_ok
                    \/ InsertRefused(worker_data.worker_price[1])
                 THEN \* except sqlite3.Error, lines 470-472
                      /\ worker_calls' = [worker_calls EXCEPT ![k] =
                            Returned(cl, cl.handler, "db_error", WriteLocked(k))]
                      /\ UNCHANGED <<worker_data, added_products>>
                 ELSE IF worker_data.worker_drop_media
                 THEN /\ worker_calls' = [worker_calls EXCEPT ![k] =
                            [cl EXCEPT !.pc = "media"]]
                      /\ UNCHANGED <<worker_data, added_products>>
                 ELSE ConfirmCommit(k, cl)
    /\ UNCHANGED worker_others

\* lines 421-453: the download returns (a failure of it is logged) and the
\* handler commits
handle_worker_confirm_add_drop_resume(k) ==
    /\ worker_calls[k].pc = "media"
    /\ Called("handle_worker_confirm_add_drop", TRUE)
    /\ ConfirmCommit(k, worker_calls[k])
    /\ UNCHANGED worker_others

\* handle_worker_bulk_type, lines 598-618: a new, empty bulk list is begun
handle_worker_bulk_type ==
    /\ \E w \in BOOLEAN :
         /\ Called("handle_worker_bulk_type", w)
         /\ IF AccessDenied(w)
            THEN UNCHANGED <<worker_data, worker_calls>>
            ELSE /\ worker_data' = [worker_data EXCEPT
                                      !.worker_bulk_product_type = TRUE,
                                      !.worker_bulk_drops = <<>>,
                                      !.state = "awaiting_worker_bulk_messages"]
                 /\ worker_calls' = [k \in WorkerCalls |->
                                       [worker_calls[k] EXCEPT !.shares_list = FALSE]]
    /\ UNCHANGED <<worker_others, added_products>>

\* handle_worker_bulk_messages, lines 641-722: a message is parsed and,
\* with a price in range, appended to the bulk list; a running
\* handle_worker_bulk_process that iterates the same list object sees it
handle_worker_bulk_messages ==
    /\ worker_data.state = "awaiting_worker_bulk_messages"
    /\ Len(worker_data.worker_bulk_drops) < MaxBulkDrops
    /\ \E w \in BOOLEAN, text \in BulkTexts, media \in BOOLEAN :
         LET m == BulkMatch(text)
             price == IF m = None THEN None ELSE ParseFloat(m[1].number)
             drop == [size |-> m[1].size, price |-> price[1], media |-> media] IN
         /\ Called("handle_worker_bulk_messages", w)
         /\ IF \/ AccessDenied(w) \/ price = None
               \/ FloatLeq(price[1], 0) \/ FloatGt(price[1], MaxWorkerPrice)
            THEN UNCHANGED <<worker_data, worker_calls>>
            ELSE /\ worker_data' = [worker_data EXCEPT
                                      !.worker_bulk_drops = Append(@, drop)]
                 /\ worker_calls' = [k \in WorkerCalls |->
                       IF worker_calls[k].shares_list /\ worker_calls[k].pc = "insert"
                       THEN [worker_calls[k] EXCEPT !.drops = Append(@, drop)]
                       ELSE worker_calls[k]]
    /\ UNCHANGED <<worker_others, added_products>>

\* the first drop with media at or after position from, 0 when none has any
FirstMedia(drops, from) ==
    LET with_media == {i \in from..Len(drops) : drops[i].media} IN
    IF with_media = {} THEN 0
    ELSE CHOOSE i \in with_media : \A j \in with_media : i <= j

\* lines 750 and 821-823: the rows of the batch were written in one
\* transaction that is never committed when an sqlite3.Error leaves the
\* with block
BulkRollback(added, rows) == added

\* lines 801-805: the worker_bulk_ keys and the state are popped
ClearBulkKeys(d) ==
    [d EXCEPT !.worker_bulk_product_type = FALSE,
              !.worker_bulk_drops = <<>>, !.state = "none"]

\* lines 753-805 and 821-826: the loop over the list from position cl.idx
\* up to the next media download, where the handler is suspended, or to the
\* end of the list, where it commits and clears the bulk keys; an
\* sqlite3.Error on the way ends the handler with nothing committed
BulkRun(k, cl) ==
    LET stop == FirstMedia(cl.drops, cl.idx)
        upto == IF stop = 0 THEN Len(cl.drops) ELSE stop
        batch == [i \in 1..(upto - cl.idx + 1) |->
                    ProductRow(cl.drops[cl.idx + i - 1].price)]
        refused == \E i \in cl.idx..upto : InsertRefused(cl.drops[i].price)
        locked == cl.rows = <<>> /\ batch # <<>> /\ WriteLocked(k) IN
    \E db_ok \in BOOLEAN, written \in 0..Len(batch) :
        IF ~db_ok \/ refused \/ locked
        THEN /\ added_products' =
                  BulkRollback(added_products,
                               cl.rows \o SubSeq(batch, 1, written))
             /\ worker_calls' = [worker_calls EXCEPT ![k] =
                   Returned(cl, cl.handler, "db_error", locked)]
             /\ UNCHANGED worker_data
        ELSE IF stop # 0
        THEN /\ written = 0
             /\ worker_calls' = [worker_calls EXCEPT ![k] =
                   [cl EXCEPT !.pc = "insert", !.idx = stop + 1,
                              !.rows = @ \o batch]]
             /\ UNCHANGED <<worker_data, added_products>>
        ELSE /\ written = 0
             /\ added_products' = added_products \o cl.rows \o batch
             /\ worker_data' = ClearBulkKeys(worker_data)
             /\ worker_calls' = [worker_calls EXCEPT ![k] =
                   Returned(cl, cl.handler, "added", FALSE)]

\* handle_worker_bulk_process, lines 724-750: the list and the location are
\* read from the session, then the loop is entered
handle_worker_bulk_process(k) ==
    LET drops == worker_data.worker_bulk_drops
        cl == [worker_calls[k] EXCEPT
                 !.handler = "handle_worker_bulk_process",
                 !.drops = drops, !.idx = 1, !.shares_list = TRUE] IN
    /\ worker_calls[k].pc = "idle"
    /\ Len(added_products) + Len(drops) <= MaxAddedProducts
    /\ \E w \in BOOLEAN :
         /\ Called("handle_worker_bulk_process", w)
         /\ IF AccessDenied(w)
            THEN /\ worker_calls' = [worker_calls EXCEPT ![k] =
                       Returned(IdleWorkerCall, cl.handler, "denied", FALSE)]
                 /\ UNCHANGED <<worker_data, added_products>>
            ELSE IF drops = <<>> \/ ~worker_data.worker_bulk_product_type
            THEN /\ worker_calls' = [worker_calls EXCEPT ![k] =
                       Returned(cl, cl.handler, "missing", FALSE)]
                 /\ UNCHANGED <<worker_data, added_products>>
            ELSE BulkRun(k, cl)
    /\ UNCHANGED worker_others

\* lines 768-799: a media download returns and the loop goes on
handle_worker_bulk_process_resume(k) ==
    /\ worker_calls[k].pc = "insert"
    /\ Called("handle_worker_bulk_process", TRUE)
    /\ BulkRun(k, worker_calls[k])
    /\ UNCHANGED worker_others

\* the single-drop flow
NextWorker ==
    \/ handle_worker_panel
    \/ handle_worker_size
    \/ handle_worker_custom_size
    \/ handle_worker_custom_size_message
    \/ handle_worker_drop_details_message
    \/ handle_worker_price_message
    \/ \E k \in WorkerCalls :
        \/ handle_worker_confirm_add_drop(k)
        \/ handle_worker_confirm_add_drop_resume(k)

SpecWorker == InitWorker /\ [][NextWorker]_vars

\* the bulk flow
NextWorkerBulk ==
    \/ handle_worker_panel
    \/ handle_worker_bulk_type
    \/ handle_worker_bulk_messages
    \/ \E k \in WorkerCalls :
        \/ handle_worker_bulk_process(k)
        \/ handle_worker_bulk_process_resume(k)

SpecWorkerBulk == InitWorker /\ [][NextWorkerBulk]_vars

\* ------------------------------------------------ crediting a balance
\* the amounts, in cents, a credit is asked for
CreditAmounts == {-500, 0, 500}

\* the users a credit is asked for: the stored ones and one without a row
CreditTargets == Users \cup {NumUsers + 1}

\* the amount check letting a credit of nothing through
InvalidCreditAmount_ZeroAllowed(is_decimal, amount) ==
    ~is_decimal \/ amount < 0

\* lines 583 and 981: not isinstance(amount, Decimal) or amount <= 0
InvalidCreditAmount(is_decimal, amount) ==
    ~is_decimal \/ amount <= 0

\* the credit replacing the balance instead of adding to it
CreditBalance_Overwrites(us, uid, amount) ==
    [us EXCEPT ![uid].balance = amount]

\* line 1000: UPDATE users SET balance = balance + ? WHERE user_id = ?
CreditBalance(us, uid, amount) ==
    [us EXCEPT ![uid].balance = @ + amount]

\* the webhook calls process_successful_refill, or credit_user_balance
\* itself for an over- or underpayment
credit_start(k) ==
    /\ credits[k].pc = "idle"
    /\ \E entry \in {"process_successful_refill", "credit_user_balance"},
          u \in CreditTargets, amount \in CreditAmounts, is_decimal \in BOOLEAN :
         credits' = [credits EXCEPT ![k] =
                       [@ EXCEPT !.pc = "begin", !.entry = entry,
                                 !.user_id = u, !.amount_eur = amount,
                                 !.is_decimal = is_decimal]]
    /\ UNCHANGED <<dbvars, product_media, tx, user_data, flows, outbox, running,
                   faults, invoice_vars, cancel_vars, admin_log, calc, worker_vars>>

\* process_successful_refill, lines 565-588 (the language lookup, whose
\* failure is only logged, and the amount check), and credit_user_balance,
\* lines 979-1026: the amount check, the transaction that adds the amount,
\* and the audit entry; nothing in between gives up the event loop
credit_user_balance_transaction(k) ==
    LET cr == credits[k]
        u == cr.user_id IN
    /\ cr.pc = "begin"
    /\ running = 0
    /\ IF InvalidCreditAmount(cr.is_decimal, cr.amount_eur)
       THEN /\ credits' = [credits EXCEPT ![k].pc = "done",
                                          ![k].result = "False"]
            /\ UNCHANGED <<users, admin_log, faults>>
       ELSE \E outcome \in LockOutcomes :
            /\ Bump(outcome)
            /\ IF outcome # "ok"
               THEN \* except sqlite3.Error: rolled back
                    /\ credits' = [credits EXCEPT ![k].pc = "done",
                                                  ![k].result = "False"]
                    /\ UNCHANGED <<users, admin_log>>
               ELSE IF u \notin DOMAIN users
               THEN \* rowcount == 0: rolled back
                    /\ credits' = [credits EXCEPT ![k].pc = "done",
                                                  ![k].result = "False"]
                    /\ UNCHANGED <<users, admin_log>>
               ELSE /\ users' = CreditBalance(users, u, cr.amount_eur)
                    /\ admin_log' = Append(admin_log,
                          [action |-> "BALANCE_CREDIT_AUTO", call |-> k,
                           target_user_id |-> u,
                           amount_change |-> cr.amount_eur,
                           old_value |-> users[u].balance,
                           new_value |-> users'[u].balance])
                    /\ credits' = [credits EXCEPT
                          ![k].pc = "notify",
                          ![k].old_balance = users[u].balance,
                          ![k].committed = TRUE]
    /\ UNCHANGED <<products, purchases, discount_codes, product_media, tx,
                   user_data, flows, outbox, running, invoice_vars,
                   cancel_vars, calc, worker_vars>>

\* lines 1028-1068: the user is notified when the context has a bot, and
\* the credit returns True; an exception on the way returns False although
\* the credit is committed (line 1074)
credit_user_balance_notify(k) ==
    LET cr == credits[k] IN
    /\ cr.pc = "notify"
    /\ running = 0
    /\ \E has_bot \in BOOLEAN, outcome \in StmtOutcomes :
         /\ Bump(outcome)
         /\ credits' = [credits EXCEPT
               ![k].pc = "done",
               ![k].notified = has_bot /\ outcome = "ok",
               ![k].result = IF outcome = "ok" THEN "True" ELSE "False"]
    /\ UNCHANGED <<dbvars, product_media, tx, user_data, flows, outbox, running,
                   invoice_vars, cancel_vars, admin_log, calc, worker_vars>>

NextCredit ==
    \E k \in Credits :
        \/ credit_start(k)
        \/ credit_user_balance_transaction(k)
        \/ credit_user_balance_notify(k)

SpecCredit == Init /\ [][NextCredit]_vars

\* ------------------------------------------------ releasing a snapshot
\* the inventories: a product row is gone (sold and deleted) or holds
\* available and reserved, each 0 or 1
Inventories ==
    UNION {[S -> [available : 0..1, reserved : 0..1]] : S \in SUBSET Products}

\* the snapshots: up to MaxSnapshotLen product ids, repeats allowed
Snapshots == UNION {[1..n -> Products] : n \in 0..MaxSnapshotLen}

InitRelease ==
    /\ InitRest
    /\ price_not_null = TRUE
    /\ products \in Inventories
    /\ \E snap \in Snapshots :
         calc = [fn |-> "unreserve", basket_snapshot |-> snap,
                 before |-> products, once |-> None, twice |-> None]

\* _unreserve_basket_items(basket_snapshot), called a first time
unreserve_basket_items_first ==
    /\ calc.fn = "unreserve" /\ calc.once = None
    /\ products' = UnreserveBasketItems(products, calc.basket_snapshot)
    /\ calc' = [calc EXCEPT !.once = Some(products')]
    /\ UNCHANGED <<purchases, users, discount_codes, product_media, tx,
                   user_data, flows, outbox, running, faults, invoice_vars,
                   cancel_vars, credit_vars, worker_vars>>

\* _unreserve_basket_items(basket_snapshot), called again
unreserve_basket_items_second ==
    /\ calc.fn = "unreserve" /\ calc.once # None /\ calc.twice = None
    /\ products' = UnreserveBasketItems(products, calc.basket_snapshot)
    /\ calc' = [calc EXCEPT !.twice = Some(products')]
    /\ UNCHANGED <<purchases, users, discount_codes, product_media, tx,
                   user_data, flows, outbox, running, faults, invoice_vars,
                   cancel_vars, credit_vars, worker_vars>>

NextRelease ==
    \/ unreserve_basket_items_first
    \/ unreserve_basket_items_second

SpecRelease == InitRelease /\ [][NextRelease]_vars

\* ------------------------------------------------ invoice creation
\* amounts of crypto currency, in units of the smallest amount told apart
EstimateAmounts == {1, 3}
MinAmount == 2

\* what the gateway can do with GET /v1/estimate
EstimateReplies ==
    {"timeout", "currencies_not_found", "http_error", "exception", "no_amount",
     "not_a_number", "estimate"}

\* _get_nowpayments_estimate, lines 84-118: the reply as the result dict
get_nowpayments_estimate(reply, amount) ==
    CASE reply = "timeout" -> [error |-> "estimate_api_timeout"]
      [] reply = "currencies_not_found" -> [error |-> "estimate_currency_not_found"]
      [] reply = "http_error" -> [error |-> "estimate_api_request_failed"]
      [] reply = "exception" -> [error |-> "estimate_api_unexpected_error"]
      [] reply = "no_amount" -> [error |-> "invalid_estimate_response"]
      [] OTHER -> [error |-> "none", estimated_amount |-> amount]

\* line 151: Decimal(str(estimate_result['estimated_amount'])), outside any
\* try, raises for an estimated_amount that is no number (null, text)
EstimateValueRaises(reply) == reply = "not_a_number"

\* every failed estimate reported alike
EstimateErrorKind_AlwaysGeneric(err) == "estimate_failed"

\* lines 145-149: the error kind create_nowpayments_payment reports for a
\* failed estimate
EstimateErrorKind(err) ==
    IF err = "estimate_currency_not_found" THEN err ELSE "estimate_failed"

\* what the gateway can do with POST /v1/payment
PaymentReplies ==
    {"timeout", "timeout_created", "http_401", "http_400_minimal", "http_error",
     "exception", "missing_keys", "bad_pay_amount", "invoice"}

\* lines 196-238 and 263-265: the error kind for a reply, "none" for a
\* well-formed invoice
PaymentErrorKind(reply) ==
    CASE reply \in {"timeout", "timeout_created"} -> "api_timeout"
      [] reply = "http_401" -> "api_key_invalid"
      [] reply = "http_400_minimal" -> "amount_too_low_api"
      [] reply = "http_error" -> "api_request_failed"
      [] reply = "exception" -> "api_unexpected_error"
      [] reply = "missing_keys" -> "invalid_api_response"
      [] reply = "bad_pay_amount" -> "internal_server_error"
      [] OTHER -> "none"

\* the failure condition a reply to the estimate request amounts to
EstimateCondition(reply) ==
    IF reply = "currencies_not_found" THEN "currency_unsupported"
    ELSE "estimate_failure"

\* the failure condition a reply to the invoice request amounts to
PaymentCondition(reply) ==
    CASE reply \in {"timeout", "timeout_created", "http_error", "exception"}
           -> "invoice_request_failure"
      [] reply = "http_401" -> "api_key_rejected"
      [] reply = "http_400_minimal" -> "amount_below_minimum"
      [] reply \in {"missing_keys", "bad_pay_amount"} -> "malformed_response"
      [] OTHER -> "none"

\* the gateway has an invoice after these replies
InvoiceCreated(reply) ==
    reply \in {"timeout_created", "missing_keys", "bad_pay_amount", "invoice"}

\* line 161: a purchase whose estimate is under the gateway minimum
BasketPayTooLow(is_purchase, estimated, minimum) ==
    is_purchase /\ estimated < minimum

\* the estimate taken as it is
InvoiceAmount_EstimateOnly(estimated, minimum) == estimated

\* line 171: invoice_crypto_amount = max(estimated_crypto_amount, min_amount_api)
InvoiceAmount(estimated, minimum) ==
    IF estimated > minimum THEN estimated ELSE minimum

\* the list without the purchase that is too small for the gateway
ReleaseNeeded_WithoutTooLow(error_code) ==
    error_code \in {"amount_too_low_api", "min_amount_fetch_error",
                    "estimate_failed", "estimate_currency_not_found",
                    "payment_api_misconfigured"}

\* line 423: the error kinds after which the handler releases the snapshot
ReleaseNeeded(error_code) ==
    error_code \in {"basket_pay_too_low", "amount_too_low_api",
                    "min_amount_fetch_error", "estimate_failed",
                    "estimate_currency_not_found", "payment_api_misconfigured"}

BasketPayKeys ==
    {"basket_pay_snapshot", "basket_pay_total_eur", "basket_pay_discount_code",
     "state"}

\* lines 339-344: what handle_select_refill_crypto pops when it is done
RefillKeys == {"refill_eur_amount", "state"}

RECURSIVE SetToSeq(_)
SetToSeq(S) ==
    IF S = {} THEN <<>>
    ELSE LET m == CHOOSE x \in S : \A y \in S : x <= y
         IN <<m>> \o SetToSeq(S \ {m})

\* the amount, in cents, a user asks to top up
RefillAmount == 500

\* every product sits, reserved, in the basket of one user; a user with a
\* non-empty basket has chosen to pay it with crypto (the payment context
\* is stored), a user with an empty one has chosen to top up; the API key
\* is configured or not
InitInvoice ==
    /\ products = [p \in Products |-> [available |-> 1, reserved |-> 1]]
    /\ purchases = <<>>
    /\ users = [u \in Users |->
                  [balance |-> InitBalance, total_purchases |-> 0, basket |-> <<>>]]
    /\ discount_codes = [c \in Codes |-> 0]
    /\ product_media = [p \in Products |->
                          IF p = 1 THEN <<"photo", "gif">> ELSE <<>>]
    /\ tx = NoTx
    /\ \E holder \in [Products -> Users] :
         user_data = [u \in Users |->
            LET mine == SetToSeq({p \in Products : holder[p] = u}) IN
            IF mine = <<>>
            THEN \* nothing in the basket: the user is topping up instead
                 [basket |-> <<>>, refill_eur_amount |-> RefillAmount]
            ELSE [basket |-> mine,
                  basket_pay_snapshot |-> mine,
                  basket_pay_total_eur |-> SnapshotTotal(mine),
                  basket_pay_discount_code |-> NoCode]]
    /\ flows = [f \in Flows |-> IdleFlow]
    /\ outbox = [f \in Flows |-> <<>>]
    /\ running = 0
    /\ faults = 0
    /\ calls = [c \in Calls |-> IdleCall]
    /\ pending_deposits = <<>>
    /\ gateway_invoices = {}
    /\ api_key_configured \in BOOLEAN
    /\ cancels = [k \in Cancels |-> IdleCancel]
    /\ payments = [i \in PaymentIds |-> NoPayment]
    /\ credits = [k \in Credits |-> IdleCredit]
    /\ admin_log = <<>>
    /\ worker_data = NoWorkerData
    /\ added_products = <<>>
    /\ worker_calls = [k \in WorkerCalls |-> IdleWorkerCall]
    /\ worker_update = NoWorkerUpdate
    /\ price_not_null = TRUE
    /\ calc = NoCalc

purchase_vars ==
    <<purchases, users, discount_codes, product_media, tx, flows, outbox,
      running, faults>>

\* handle_select_basket_crypto, lines 409-462 (for a refill
\* handle_select_refill_crypto, lines 321-345, which clears its own keys and
\* releases nothing), once create_nowpayments_payment has returned: the payment context is read again and cleared; a failure
\* of a listed kind goes on to release the snapshot, any other failure is
\* only reported; an invoice is displayed and its id kept for cancelling
\* (display_nowpayments_invoice, line 489)
HandlerAfterCreate(c, cl, error) ==
    LET u == cl.user_id
        d == user_data[u]
        before == IF cl.is_purchase /\ Has(d, "basket_pay_snapshot")
                  THEN Some(d["basket_pay_snapshot"]) ELSE None
        cleared == Pop(d, IF cl.is_purchase THEN BasketPayKeys ELSE RefillKeys) IN
    /\ user_data' = [user_data EXCEPT ![u] =
                       IF error = "none"
                       THEN Put(cleared, "pending_payment_id", cl.payment_id)
                       ELSE cleared]
    /\ calls' = [calls EXCEPT ![c] =
                   [cl EXCEPT !.error = error,
                              !.snapshot_before_clear = before,
                              !.pc = IF /\ cl.is_purchase
                                        /\ error # "none" /\ ReleaseNeeded(error)
                                     THEN "unreserve" ELSE "done"]]

\* handle_select_basket_crypto, lines 357-399: the callback arrives; without
\* a stored payment context the handler gives up
handle_select_basket_crypto_begin(c) ==
    /\ calls[c].pc = "idle"
    /\ \E u \in 1..Min(c, NumUsers), params \in {None, Some("btc")} :
         LET d == user_data[u] IN
         IF params = None
         THEN /\ calls' = [calls EXCEPT ![c].pc = "done", ![c].user_id = u,
                                        ![c].error = "missing_params"]
              /\ UNCHANGED user_data
         ELSE IF ~Has(d, "basket_pay_snapshot") \/ ~Has(d, "basket_pay_total_eur")
         THEN /\ calls' = [calls EXCEPT ![c].pc = "done", ![c].user_id = u,
                                        ![c].error = "context_lost"]
              /\ user_data' = [user_data EXCEPT ![u] = Pop(d, BasketPayKeys)]
         ELSE /\ calls' = [calls EXCEPT
                    ![c].pc = "create", ![c].user_id = u,
                    ![c].pay_currency_code = params[1],
                    ![c].basket_snapshot = d["basket_pay_snapshot"],
                    ![c].discount_code = d["basket_pay_discount_code"]]
              /\ UNCHANGED user_data
    /\ UNCHANGED <<products, purchase_vars, cancel_vars, credit_vars, calc, pending_deposits, gateway_invoices,
                   api_key_configured, worker_vars>>

\* handle_select_refill_crypto, lines 269-319: the callback arrives; without
\* a stored refill amount the handler gives up
handle_select_refill_crypto_begin(c) ==
    /\ calls[c].pc = "idle"
    /\ \E u \in 1..Min(c, NumUsers), params \in {None, Some("btc")} :
         LET d == user_data[u] IN
         IF params = None
         THEN /\ calls' = [calls EXCEPT ![c].pc = "done", ![c].user_id = u,
                                        ![c].is_purchase = FALSE,
                                        ![c].error = "missing_params"]
              /\ UNCHANGED user_data
         ELSE IF ~Has(d, "refill_eur_amount") \/ d["refill_eur_amount"] <= 0
         THEN /\ calls' = [calls EXCEPT ![c].pc = "done", ![c].user_id = u,
                                        ![c].is_purchase = FALSE,
                                        ![c].error = "context_lost"]
              /\ user_data' = [user_data EXCEPT ![u] = Pop(d, {"state"})]
         ELSE /\ calls' = [calls EXCEPT
                    ![c].pc = "create", ![c].user_id = u,
                    ![c].is_purchase = FALSE,
                    ![c].pay_currency_code = params[1]]
              /\ UNCHANGED user_data
    /\ UNCHANGED <<products, purchase_vars, cancel_vars, credit_vars, calc,
                   pending_deposits, gateway_invoices, api_key_configured, worker_vars>>

\* create_nowpayments_payment, lines 135-143: the key check, then the
\* estimate is requested
create_nowpayments_payment_begin(c) ==
    LET cl == calls[c] IN
    /\ cl.pc = "create"
    /\ IF ~api_key_configured
       THEN HandlerAfterCreate(c,
                [cl EXCEPT !.condition = "gateway_misconfigured"],
                "payment_api_misconfigured")
       ELSE /\ calls' = [calls EXCEPT ![c].pc = "estimate"]
            /\ UNCHANGED user_data
    /\ UNCHANGED <<products, purchase_vars, cancel_vars, credit_vars, calc, pending_deposits, gateway_invoices,
                   api_key_configured, worker_vars>>

\* lines 143-190: the estimate's result, the minimum amount, the check of a
\* purchase against the minimum, and the invoice amount
create_nowpayments_payment_estimate(c) ==
    LET cl == calls[c] IN
    /\ cl.pc = "estimate"
    /\ \E reply \in EstimateReplies, amount \in EstimateAmounts,
          minimum \in {None, Some(MinAmount)} :
         LET res == get_nowpayments_estimate(reply, amount) IN
         IF res.error # "none"
         THEN HandlerAfterCreate(c,
                  [cl EXCEPT !.condition = EstimateCondition(reply)],
                  EstimateErrorKind(res.error))
         ELSE IF EstimateValueRaises(reply)
         THEN \* nothing catches it at line 402 (line 315 for a refill):
              \* the handler ends there, the payment context stays as it is
              /\ calls' = [calls EXCEPT ![c].pc = "done", ![c].raised = TRUE]
              /\ UNCHANGED user_data
         ELSE IF minimum = None
         THEN HandlerAfterCreate(c,
                  [cl EXCEPT !.estimated_crypto_amount = res.estimated_amount,
                             !.condition = "minimum_lookup_failure"],
                  "min_amount_fetch_error")
         ELSE IF BasketPayTooLow(cl.is_purchase, res.estimated_amount, minimum[1])
         THEN HandlerAfterCreate(c,
                  [cl EXCEPT !.estimated_crypto_amount = res.estimated_amount,
                             !.min_amount_api = minimum[1],
                             !.condition = "amount_below_minimum"],
                  "basket_pay_too_low")
         ELSE /\ calls' = [calls EXCEPT
                    ![c].pc = "payment",
                    ![c].estimated_crypto_amount = res.estimated_amount,
                    ![c].min_amount_api = minimum[1],
                    ![c].invoice_crypto_amount =
                        InvoiceAmount(res.estimated_amount, minimum[1])]
              /\ UNCHANGED user_data
    /\ UNCHANGED <<products, purchase_vars, cancel_vars, credit_vars, calc, pending_deposits, gateway_invoices,
                   api_key_configured, worker_vars>>

\* lines 194-244: the invoice is requested from the gateway and its reply
\* validated
create_nowpayments_payment_request(c) ==
    LET cl == calls[c]
        fresh == Cardinality(gateway_invoices) + 1 IN
    /\ cl.pc = "payment"
    /\ \E reply \in PaymentReplies :
         /\ gateway_invoices' = IF InvoiceCreated(reply)
                                THEN gateway_invoices \cup {fresh}
                                ELSE gateway_invoices
         /\ IF PaymentErrorKind(reply) # "none"
            THEN HandlerAfterCreate(c,
                     [cl EXCEPT !.price_amount = cl.invoice_crypto_amount,
                                !.condition = PaymentCondition(reply)],
                     PaymentErrorKind(reply))
            ELSE /\ calls' = [calls EXCEPT
                       ![c].pc = "store", ![c].payment_id = fresh,
                       ![c].price_amount = cl.invoice_crypto_amount]
                 /\ UNCHANGED user_data
    /\ UNCHANGED <<products, purchase_vars, cancel_vars, credit_vars, calc, pending_deposits, api_key_configured, worker_vars>>

\* lines 246-261: the pending deposit is stored, or the failure reported
create_nowpayments_payment_store(c) ==
    LET cl == calls[c] IN
    /\ cl.pc = "store"
    /\ \E add_success \in BOOLEAN :
         IF add_success
         THEN /\ pending_deposits' =
                    Put(pending_deposits, cl.payment_id,
                        [user_id |-> cl.user_id, is_purchase |-> cl.is_purchase,
                         basket_snapshot |-> cl.basket_snapshot,
                         discount_code |-> cl.discount_code])
              /\ HandlerAfterCreate(c, cl, "none")
         ELSE /\ UNCHANGED pending_deposits
              /\ HandlerAfterCreate(c,
                     [cl EXCEPT !.condition = "persistence_failure"],
                     "pending_db_error")
    /\ UNCHANGED <<products, purchase_vars, cancel_vars, credit_vars, calc, gateway_invoices, api_key_configured, worker_vars>>

\* lines 425-431: asyncio.to_thread(_unreserve_basket_items,
\* snapshot_before_clear); a missing snapshot releases nothing
handle_select_basket_crypto_unreserve(c) ==
    LET cl == calls[c] IN
    /\ cl.pc = "unreserve"
    /\ tx.owner = 0
    /\ products' = IF cl.snapshot_before_clear = None THEN products
                   ELSE UnreserveBasketItems(products, cl.snapshot_before_clear[1])
    /\ calls' = [calls EXCEPT ![c].pc = "done",
                              ![c].released = cl.snapshot_before_clear # None]
    /\ UNCHANGED <<purchase_vars, cancel_vars, credit_vars, calc, user_data, pending_deposits, gateway_invoices,
                   api_key_configured, worker_vars>>

\* the cancel handler reading the payment id without removing it
CancelContext_KeepsId(d) == d

\* line 1101: context.user_data.pop('pending_payment_id', None), the session
\* it leaves
CancelContext(d) == Pop(d, {"pending_payment_id"})

\* utils.remove_pending_deposit(payment_id, trigger): does removing the
\* record also release its snapshot (a purchase not removed for its success)
ReleasesOnRemove(deposits, payment_id, trigger) ==
    /\ Has(deposits, payment_id)
    /\ trigger # "purchase_success"
    /\ deposits[payment_id].is_purchase
    /\ deposits[payment_id].basket_snapshot # <<>>

\* handle_cancel_crypto_payment, lines 1095-1101 and 1108-1111: the pending
\* payment id is taken out of the session; without one the user is told
\* that nothing could be cancelled
handle_cancel_crypto_payment_begin(k) ==
    /\ cancels[k].pc = "idle"
    /\ \E u \in Users :
         LET d == user_data[u] IN
         /\ user_data' = [user_data EXCEPT ![u] = CancelContext(d)]
         /\ cancels' = [cancels EXCEPT ![k] =
               IF Has(d, "pending_payment_id")
               THEN [pc |-> "remove", user_id |-> u,
                     payment_id |-> Some(d["pending_payment_id"])]
               ELSE [pc |-> "done", user_id |-> u, payment_id |-> None]]
    /\ UNCHANGED <<products, purchase_vars, credit_vars, calc, invoice_vars,
                   payments, worker_vars>>

\* lines 1103-1107: asyncio.to_thread(remove_pending_deposit, payment_id,
\* trigger='user_cancel'): the record is deleted and its snapshot released;
\* a record that is gone leaves nothing to do
handle_cancel_crypto_payment_remove(k) ==
    LET i == cancels[k].payment_id[1] IN
    /\ cancels[k].pc = "remove"
    /\ tx.owner = 0
    /\ IF Has(pending_deposits, i)
       THEN /\ products' =
                 IF ReleasesOnRemove(pending_deposits, i, "user_cancel")
                 THEN UnreserveBasketItems(products,
                                           pending_deposits[i].basket_snapshot)
                 ELSE products
            /\ payments' = [payments EXCEPT
                  ![i].cancelled = TRUE,
                  ![i].released =
                      IF ReleasesOnRemove(pending_deposits, i, "user_cancel")
                      THEN @ + 1 ELSE @]
            /\ pending_deposits' = Pop(pending_deposits, {i})
       ELSE UNCHANGED <<products, payments, pending_deposits>>
    /\ cancels' = [cancels EXCEPT ![k].pc = "done"]
    /\ UNCHANGED <<purchase_vars, credit_vars, calc, user_data, calls,
                   gateway_invoices, api_key_configured, worker_vars>>

\* the webhook receiver: a confirmation of an invoice arrives; with the
\* pending deposit on record the payment is handed to the finalizer and the
\* record removed for its success, without it the confirmation is ignored
webhook_confirmation(i) ==
    /\ i \in gateway_invoices
    /\ payments[i].confirmations < MaxConfirmations
    /\ tx.owner = 0
    /\ IF Has(pending_deposits, i)
       THEN /\ payments' = [payments EXCEPT
                  ![i].confirmations = @ + 1,
                  ![i].finalizations = @ + 1,
                  ![i].released =
                      IF ReleasesOnRemove(pending_deposits, i, "purchase_success")
                      THEN @ + 1 ELSE @]
            /\ pending_deposits' = Pop(pending_deposits, {i})
       ELSE /\ payments' = [payments EXCEPT ![i].confirmations = @ + 1]
            /\ UNCHANGED pending_deposits
    /\ UNCHANGED <<products, purchase_vars, credit_vars, calc, user_data, calls,
                   cancels, gateway_invoices, api_key_configured, worker_vars>>

NextInvoice ==
    \/ \E k \in Cancels :
        \/ handle_cancel_crypto_payment_begin(k)
        \/ handle_cancel_crypto_payment_remove(k)
    \/ \E i \in PaymentIds : webhook_confirmation(i)
    \/ \E c \in Calls :
        \/ handle_select_basket_crypto_begin(c)
        \/ handle_select_refill_crypto_begin(c)
        \/ create_nowpayments_payment_begin(c)
        \/ create_nowpayments_payment_estimate(c)
        \/ create_nowpayments_payment_request(c)
        \/ create_nowpayments_payment_store(c)
        \/ handle_select_basket_crypto_unreserve(c)

SpecInvoice == InitInvoice /\ [][NextInvoice]_vars

\* ------------------------------------------------------------- properties
Done(f) == flows[f].pc = "done"

FinReturned(f) == flows[f].finalize_success # "none"

Alerted(f) == \E i \in DOMAIN outbox[f] : outbox[f][i].to = ADMIN_ID

RowsFor(p) == Cardinality({i \in DOMAIN purchases : purchases[i].product_id = p})

\* flow f claimed product p: its committed finalization decremented p
Claimed(f, p) ==
    flows[f].fin_wrote /\ p \in Range(flows[f].processed_product_ids)

Sold(p) == p \notin DOMAIN products \/ products[p].available = 0

RECURSIVE NetDeductedUpTo(_, _)
NetDeductedUpTo(u, n) ==
    IF n = 0 THEN 0
    ELSE NetDeductedUpTo(u, n - 1)
         + (IF flows[n].user_id = u /\ flows[n].db_balance_deducted
               /\ flows[n].refund # "ok"
            THEN flows[n].amount_to_deduct ELSE 0)

\* C1: a single-unit product is claimed by at most one finalization: its
\* available count never goes below 0 (in the committed table or inside the
\* open transaction), at most one purchase row ever exists for it, and once
\* a finalization whose snapshot holds it has run without a database error,
\* exactly one flow has claimed it, one row exists and its stock is 0 (or
\* its row already deleted).
C1_SingleUnitClaimedOnce ==
    /\ \A p \in DOMAIN products : products[p].available >= 0
    /\ tx.owner # 0 => \A p \in DOMAIN tx.products : tx.products[p].available >= 0
    /\ \A p \in Products : RowsFor(p) <= 1
    /\ \A p \in Products :
         Cardinality({f \in Flows : Claimed(f, p)}) <= 1
    /\ \A f \in Flows : \A p \in Range(flows[f].basket_snapshot) :
         (FinReturned(f) /\ ~flows[f].fin_error) =>
            /\ Cardinality({g \in Flows : Claimed(g, p)}) = 1
            /\ RowsFor(p) = 1
            /\ Sold(p)

\* two flows whose snapshots share a product have both finished; one
\* claimed it while the other met the held lock (no failure was injected)
C1_Witness ==
    \E f, g \in Flows : \E p \in Products :
        /\ f # g
        /\ p \in Range(flows[f].basket_snapshot)
        /\ p \in Range(flows[g].basket_snapshot)
        /\ Done(f) /\ Done(g)
        /\ Claimed(f, p) /\ ~Claimed(g, p)
        /\ flows[g].fin_error /\ faults = 0
        /\ RowsFor(p) = 1

\* C2 as claimed: after a failed finalization that followed a committed
\* deduction, the balance is back at its value before the deduction.
C2_BalanceAlwaysRestored ==
    \A f \in Flows :
        (Done(f) /\ flows[f].kind = "balance" /\ flows[f].db_balance_deducted
                 /\ flows[f].finalize_success = "fail")
        => users[flows[f].user_id].balance = flows[f].balance_before

\* C2 (amended): the refund gives back exactly what was deducted.  Every
\* balance is the initial balance less the deductions not refunded; and a
\* flow that alone touched its user's balance leaves it at the value before
\* the deduction when the refund committed, and reduced by the deducted
\* amount when the refund failed.
C2_RefundRestoresUnlessRefundFails ==
    /\ \A u \in Users : users[u].balance = InitBalance - NetDeductedUpTo(u, NumFlows)
    /\ \A f \in Flows :
         (/\ Done(f) /\ flows[f].kind = "balance" /\ flows[f].db_balance_deducted
          /\ flows[f].finalize_success = "fail"
          /\ \A g \in Flows \ {f} : flows[g].user_id = flows[f].user_id
                                     => ~flows[g].db_balance_deducted)
         => /\ flows[f].refund = "ok"
               => users[flows[f].user_id].balance = flows[f].balance_before
            /\ flows[f].refund = "failed"
               => users[flows[f].user_id].balance
                    = flows[f].balance_before - flows[f].amount_to_deduct

C2_Witness ==
    \E f \in Flows :
        /\ Done(f) /\ flows[f].kind = "balance" /\ flows[f].db_balance_deducted
        /\ flows[f].finalize_success = "fail" /\ flows[f].refund = "ok"
        /\ flows[f].amount_to_deduct > 0
        /\ users[flows[f].user_id].balance = flows[f].balance_before

\* C4 as claimed: a flow over a non-empty snapshot ends either COMMITTED
\* (it returns True) or RELEASED (it called the release helper and every
\* snapshot item is sold or back in the pool), never failed with an item
\* neither sold nor released.
C4_EndsCommittedOrReleased ==
    \A f \in Flows :
        (Done(f) /\ flows[f].basket_snapshot # <<>>)
        => \/ flows[f].result = "True"
           \/ /\ flows[f].released
              /\ \A p \in Range(flows[f].basket_snapshot) :
                    Sold(p) \/ products[p].reserved = 0

PostPaymentFailure(f) ==
    \/ /\ flows[f].kind = "balance" /\ flows[f].db_balance_deducted
       /\ flows[f].finalize_success = "fail"
    \/ /\ flows[f].kind = "crypto"
       /\ flows[f].finalize_success = "fail" \/ flows[f].basket_snapshot = <<>>

\* C5 as claimed: every post-payment inconsistency alerts the operator.
C5_EveryInconsistencyAlerts ==
    \A f \in Flows : (Done(f) /\ PostPaymentFailure(f)) => Alerted(f)

\* C5 (amended): a confirmed crypto payment that is not finalized (failed
\* finalization or missing snapshot) always alerts the operator; a balance
\* payment alerts the operator when its refund failed.
C5_UncompensatedInconsistencyAlerts ==
    \A f \in Flows :
        Done(f) =>
          /\ (flows[f].kind = "crypto" /\ PostPaymentFailure(f)) => Alerted(f)
          /\ (flows[f].kind = "balance" /\ PostPaymentFailure(f)
                /\ flows[f].refund # "ok") => Alerted(f)

C5_Witness ==
    \E f \in Flows :
        /\ Done(f) /\ flows[f].kind = "crypto"
        /\ flows[f].finalize_success = "fail" /\ Alerted(f)

\* C6: in the balance path, after a failed finalization the operator is
\* alerted exactly when the refund failed.
C6_AlertIffRefundFails ==
    \A f \in Flows :
        (Done(f) /\ flows[f].kind = "balance" /\ flows[f].db_balance_deducted
                 /\ flows[f].finalize_success = "fail")
        => /\ flows[f].refund \in {"ok", "failed"}
           /\ Alerted(f) <=> flows[f].refund = "failed"

C6_Witness ==
    \E f \in Flows :
        /\ Done(f) /\ flows[f].kind = "balance"
        /\ flows[f].finalize_success = "fail"
        /\ flows[f].refund = "failed" /\ Alerted(f)

\* C7: a finalization that met no database error reports success exactly
\* when it claimed at least one snapshot item; with no item claimed its
\* transaction is rolled back (closed, nothing written) and it fails.
C7_SuccessIffSomeItemClaimed ==
    \A f \in Flows :
        (FinReturned(f) /\ ~flows[f].fin_error) =>
          /\ flows[f].finalize_success = "ok"
               <=> flows[f].processed_product_ids # <<>>
          /\ flows[f].processed_product_ids = <<>>
               => (~flows[f].fin_wrote /\ tx.owner # f)

C7_Witness ==
    \E f \in Flows :
        /\ FinReturned(f) /\ ~flows[f].fin_error
        /\ flows[f].basket_snapshot # <<>>
        /\ flows[f].processed_product_ids = <<>>
        /\ flows[f].finalize_success = "fail"

\* C8: a finalization that reports failure changed no committed table
\* (products, purchases, users, discount_codes) and left no transaction open.
C8_FailureLeavesNoPartialState ==
    \A f \in Flows :
        (flows[f].pc = "fin_failed" \/ flows[f].finalize_success = "fail")
        => (~flows[f].fin_wrote /\ tx.owner # f)

\* a finalization failed on a database error after it had claimed an item
C8_Witness ==
    \E f \in Flows :
        /\ flows[f].finalize_success = "fail" /\ flows[f].fin_error
        /\ flows[f].processed_product_ids # <<>>
        /\ \A p \in Range(flows[f].processed_product_ids) :
              p \in DOMAIN products /\ products[p].available = 1

\* the step in which flow f commits its finalization
CommitStep(f) ==
    /\ flows[f].pc = "fin_loop"
    /\ flows'[f].pc = "fin_fetch_media"

\* C9: purchase rows, total_purchases, the stored basket and uses_count
\* change only in the commit step of a finalization, and then together: the
\* prepared rows are appended, the claimed products decremented, the user's
\* stored basket emptied, and uses_count goes up by exactly 1 for the code
\* used and by nothing when no code was used.
C9_CommitChangesTogether ==
    [][ (purchases' # purchases \/ discount_codes' # discount_codes
           \/ \E u \in Users :
                 \/ users'[u].basket # users[u].basket
                 \/ users'[u].total_purchases # users[u].total_purchases)
        => \E f \in Flows :
             LET fl == flows[f] IN
             /\ CommitStep(f)
             /\ fl.purchases_to_insert # <<>>
             /\ purchases' = purchases \o fl.purchases_to_insert
             /\ \A p \in Range(fl.processed_product_ids) :
                   products'[p].available = products[p].available - 1
             /\ users'[fl.user_id].basket = <<>>
             /\ users'[fl.user_id].total_purchases
                  = users[fl.user_id].total_purchases + Len(fl.purchases_to_insert)
             /\ \A u \in Users \ {fl.user_id} : users'[u] = users[u]
             /\ \A c \in Codes :
                   discount_codes'[c] = discount_codes[c]
                      + (IF c = fl.discount_code_used THEN 1 ELSE 0) ]_vars

\* a finalization with a discount code has committed
C9_Witness ==
    \E f \in Flows :
        /\ flows[f].fin_wrote
        /\ flows[f].discount_code_used \in Codes
        /\ discount_codes[flows[f].discount_code_used] >= 1
        /\ users[flows[f].user_id].basket = <<>>

\* C10: once a finalization has committed, its purchase rows stay, the
\* stock it claimed is never given back, it reports success and the flow
\* returns True with no refund, whatever fails while delivering.
C10_CommittedPurchaseSurvivesDelivery ==
    \A f \in Flows :
        flows[f].fin_wrote =>
          /\ \A i \in DOMAIN flows[f].purchases_to_insert :
                \E j \in DOMAIN purchases :
                    purchases[j] = flows[f].purchases_to_insert[i]
          /\ \A p \in Range(flows[f].processed_product_ids) : Sold(p)
          /\ FinReturned(f) => flows[f].finalize_success = "ok"
          /\ flows[f].refund = "none"
          /\ Done(f) => flows[f].result = "True"

\* a flow returned True although a step of the delivery phase failed
C10_Witness ==
    \E f \in Flows :
        /\ Done(f) /\ flows[f].fin_wrote /\ flows[f].post_fault
        /\ flows[f].result = "True"


\* C3 as claimed: a basket crypto payment that failed before a pending
\* deposit was stored has released the items of its snapshot.
C3_EveryEarlyFailureReleases ==
    \A c \in Calls :
        (/\ calls[c].pc = "done" /\ calls[c].is_purchase
         /\ calls[c].error \notin {"none", "missing_params", "context_lost"})
        => /\ calls[c].released
           /\ \A p \in Range(calls[c].basket_snapshot) :
                 Sold(p) \/ products[p].reserved = 0

\* C11 as claimed: the recorded price_paid is the discounted price
\* p*(100-d)/100 rounded down to the cent.
C11_PricePaidIsDiscountedRoundedDown ==
    (calc.fn = "price_paid" /\ calc.out # None)
    => calc.out[1] = (calc.price * (100 - calc.pct)) \div 100

\* C11 (amended): the discount amount is what is rounded down, so the
\* recorded price_paid is the discounted price rounded up to the cent: the
\* least whole number of cents not below p*(100-d)/100, between 0 and p.
C11_PricePaidIsDiscountedRoundedUp ==
    (calc.fn = "price_paid" /\ calc.out # None)
    => LET paid == calc.out[1]
           exact100 == calc.price * (100 - calc.pct) IN
       /\ 100 * paid >= exact100
       /\ 100 * (paid - 1) < exact100
       /\ 0 <= paid /\ paid <= calc.price

\* a price was computed where the discount is not a whole number of cents
C11_Witness ==
    /\ calc.fn = "price_paid" /\ calc.out # None
    /\ (calc.price * calc.pct) % 100 # 0
    /\ calc.out[1] # (calc.price * (100 - calc.pct)) \div 100

\* the rows of the purchases table that record product p
RowsOf(p) == {i \in DOMAIN purchases : purchases[i].product_id = p}

\* C12: a finalization that found every product of its snapshot available,
\* met no database error and applied no reseller discount has claimed every
\* snapshot item, in order; the table holds exactly one row per item, with
\* price_paid equal to the snapshot price, so its rows total the sum of the
\* prices; and every one of those products is at available = 0 (or its row
\* has been deleted after delivery).
C12_OneRowPerItemAtSnapshotPrice ==
    \A f \in Flows :
        (/\ FinReturned(f) /\ ~flows[f].fin_error
         /\ flows[f].basket_snapshot # <<>>
         /\ flows[f].all_available
         /\ \A i \in DOMAIN flows[f].discounts : flows[f].discounts[i] = 0)
        => /\ flows[f].finalize_success = "ok"
           /\ flows[f].processed_product_ids = flows[f].basket_snapshot
           /\ \A p \in Range(flows[f].basket_snapshot) :
                 /\ Cardinality(RowsOf(p)) = 1
                 /\ \A i \in RowsOf(p) :
                       /\ purchases[i].price_paid = Price(p)
                       /\ purchases[i].user_id = flows[f].user_id
                 /\ Sold(p)
           /\ SeqSum([i \in DOMAIN flows[f].purchases_to_insert |->
                         flows[f].purchases_to_insert[i].price_paid])
                = SnapshotTotal(flows[f].basket_snapshot)

\* a two-item snapshot was finalized without discount
C12_Witness ==
    \E f \in Flows :
        /\ FinReturned(f) /\ flows[f].finalize_success = "ok"
        /\ Len(flows[f].basket_snapshot) = 2
        /\ flows[f].all_available
        /\ flows[f].discounts = <<0, 0>>
        /\ Len(purchases) >= 2

\* C13: a basket invoice request whose estimate is below the gateway minimum
\* ends with basket_pay_too_low; it sent no invoice request, obtained no
\* payment id and stored no pending deposit; no available count changed; and
\* the caller released the snapshot it re-read before clearing the context,
\* which it always finds when no other request of the same user ran.
C13_TooLowCreatesNothingAndReleases ==
    \A c \in Calls :
        LET cl == calls[c] IN
        /\ (cl.pc \in {"unreserve", "done"} /\ cl.is_purchase
              /\ cl.min_amount_api # 0
              /\ cl.estimated_crypto_amount < cl.min_amount_api)
           => cl.error = "basket_pay_too_low"
        /\ (cl.pc = "done" /\ cl.error = "basket_pay_too_low")
           => /\ cl.price_amount = 0 /\ cl.payment_id = 0
              /\ \A i \in DOMAIN pending_deposits :
                    pending_deposits[i].user_id = cl.user_id
                      => \E c2 \in Calls \ {c} : calls[c2].payment_id = i
              /\ \A p \in Products : products[p].available = 1
              /\ cl.snapshot_before_clear # None
                   => /\ cl.released
                      /\ \A p \in Range(cl.basket_snapshot) :
                            products[p].reserved = 0
              /\ (\A c2 \in Calls \ {c} : calls[c2].user_id # cl.user_id)
                   => cl.snapshot_before_clear # None

\* a purchase of two items ended too low and its items are released
C13_Witness ==
    \E c \in Calls :
        /\ calls[c].pc = "done" /\ calls[c].error = "basket_pay_too_low"
        /\ calls[c].released
        /\ Len(calls[c].basket_snapshot) = 2
        /\ gateway_invoices = {}

\* C14: every invoice request sent to the gateway, for a purchase or a
\* refill, asks for the larger of the estimate and the gateway minimum: an
\* amount not below either and equal to one of them.
C14_RequestedAmountIsMaxOfEstimateAndMinimum ==
    \A c \in Calls :
        calls[c].price_amount # 0
        => /\ calls[c].price_amount >= calls[c].min_amount_api
           /\ calls[c].price_amount >= calls[c].estimated_crypto_amount
           /\ calls[c].price_amount \in {calls[c].min_amount_api,
                                          calls[c].estimated_crypto_amount}

\* a refill whose estimate is under the minimum was requested at the
\* minimum, and a purchase was requested at its estimate
C14_Witness ==
    /\ \E c \in Calls :
          /\ ~calls[c].is_purchase
          /\ calls[c].price_amount = calls[c].min_amount_api
          /\ calls[c].estimated_crypto_amount < calls[c].min_amount_api
    /\ \E c \in Calls :
          /\ calls[c].is_purchase
          /\ calls[c].price_amount = calls[c].estimated_crypto_amount
          /\ calls[c].price_amount > calls[c].min_amount_api

\* the call ended with an error kind returned by create_nowpayments_payment
CreateFailed(c) ==
    /\ calls[c].pc \in {"unreserve", "done"}
    /\ calls[c].condition # "none"

CancelsOf(i) == {k \in Cancels : cancels[k].payment_id = Some(i)}

C18_FailureBeforeDeductionReleases ==
    \A f \in Flows :
        (/\ Done(f) /\ flows[f].kind = "balance"
         /\ flows[f].result = "False"
         /\ ~flows[f].db_balance_deducted
         /\ flows[f].basket_snapshot # <<>>)
        => flows[f].released

\* the sum of the amounts of the first n credits that committed for user u
RECURSIVE CreditedUpTo(_, _)
CreditedUpTo(u, n) ==
    IF n = 0 THEN 0
    ELSE CreditedUpTo(u, n - 1)
         + (IF credits[n].committed /\ credits[n].user_id = u
            THEN credits[n].amount_eur ELSE 0)

\* C19: a credit returns True only for a user whose row exists and after
\* its transaction committed; every balance equals its initial value plus
\* the amounts of the credits committed for that user, each added once;
\* and a credit for a user without a row returns False and commits nothing.
C19_CreditSucceedsOnlyForExistingUser ==
    /\ \A k \in Credits :
          /\ credits[k].result = "True"
               => /\ credits[k].user_id \in DOMAIN users
                  /\ credits[k].committed
                  /\ credits[k].amount_eur > 0
          /\ (credits[k].pc = "done" /\ credits[k].user_id \notin DOMAIN users)
               => /\ credits[k].result = "False"
                  /\ ~credits[k].committed
    /\ \A u \in Users :
          users[u].balance = InitBalance + CreditedUpTo(u, NumCredits)

\* two credits of the same user both returned True, a third party's
\* balance untouched
C19_Witness ==
    /\ \A k \in Credits : credits[k].result = "True" /\ credits[k].user_id = 1
    /\ users[1].balance > InitBalance

\* C20: a credit asked for with an amount of zero or less, through either
\* entry point, returns False, commits nothing, leaves every balance as it
\* was, writes no audit entry and notifies nobody.
C20_NonPositiveAmountRejected ==
    \A k \in Credits :
        (credits[k].pc \in {"notify", "done"} /\ credits[k].amount_eur <= 0)
        => /\ credits[k].pc = "done"
           /\ credits[k].result = "False"
           /\ ~credits[k].committed
           /\ ~credits[k].notified
           /\ \A i \in DOMAIN admin_log : admin_log[i].call # k
           /\ (\A k2 \in Credits \ {k} : ~credits[k2].committed)
                => \A u \in Users : users[u].balance = InitBalance

\* a refill of zero and a credit below zero were both rejected
C20_Witness ==
    \E k1, k2 \in Credits :
        /\ credits[k1].pc = "done" /\ credits[k1].amount_eur = 0
        /\ credits[k1].entry = "process_successful_refill"
        /\ credits[k1].is_decimal /\ credits[k1].user_id \in Users
        /\ credits[k2].pc = "done" /\ credits[k2].amount_eur < 0
        /\ credits[k2].entry = "credit_user_balance"

\* C21: every step that changes a user's balance (a credit, a purchase
\* deduction, a refund) also appends one audit entry for that user holding
\* the balance before and after; no balance changes without such an entry.
C21_BalanceChangeIsAudited ==
    [][\A u \in Users :
         users'[u].balance # users[u].balance
         => /\ Len(admin_log') = Len(admin_log) + 1
            /\ admin_log'[Len(admin_log')].target_user_id = u
            /\ admin_log'[Len(admin_log')].old_value = users[u].balance
            /\ admin_log'[Len(admin_log')].new_value = users'[u].balance]_vars

\* the deduction of flow f is in effect: committed and not refunded
DeductionInEffect(f) ==
    flows[f].db_balance_deducted /\ flows[f].refund # "ok"

\* C22: the balance check and the deduction are one step of one exclusive
\* transaction: no balance is ever negative, every deduction was covered by
\* the balance it found, and two balance purchases of one user whose
\* amounts together exceed the balance never both have their deduction in
\* effect (the second can only commit once the first has been refunded).
C22_DeductionsNeverOverdraw ==
    /\ \A u \in Users : users[u].balance >= 0
    /\ \A f \in Flows :
         flows[f].db_balance_deducted
         => flows[f].balance_before >= flows[f].amount_to_deduct
    /\ \A f, g \in Flows :
         (/\ f # g
          /\ flows[f].user_id = flows[g].user_id
          /\ DeductionInEffect(f) /\ DeductionInEffect(g))
         => flows[f].amount_to_deduct + flows[g].amount_to_deduct <= InitBalance

\* two balance purchases of one user, each affordable alone but not both:
\* one deducted, the other was refused for its balance and released
C22_Witness ==
    \E f, g \in Flows :
        /\ f # g
        /\ flows[f].user_id = flows[g].user_id
        /\ flows[f].kind = "balance" /\ flows[g].kind = "balance"
        /\ flows[f].amount_to_deduct <= InitBalance
        /\ flows[g].amount_to_deduct <= InitBalance
        /\ flows[g].amount_to_deduct > 0
        /\ flows[f].amount_to_deduct + flows[g].amount_to_deduct > InitBalance
        /\ DeductionInEffect(f)
        /\ Done(g) /\ ~flows[g].db_balance_deducted /\ flows[g].released
        /\ \E i \in DOMAIN outbox[g] : outbox[g][i].text = "balance_changed_error"

\* every flow that was invoked returns
InvokedFlowsReturn ==
    \A f \in Flows : (flows[f].pc # "idle") ~> Done(f)

\* C23: the event loop is never blocked by a database call: no statement
\* run on the event loop ever waits for the database lock that a suspended
\* finalization holds, and every flow that was invoked finishes.
C23_EventLoopNeverBlocked ==
    /\ [](\A f \in Flows : ~flows[f].blocked_loop)
    /\ InvokedFlowsReturn

\* C24: no gateway or database failure inside create_nowpayments_payment,
\* process_purchase_with_balance, _finalize_purchase or credit_user_balance
\* leaves the operation as an exception: every call ends with a returned
\* error kind or result, a malformed estimate value included.
C24_NoExceptionReachesHandler ==
    \A c \in Calls : ~calls[c].raised

\* what holds of the purchase rows in every state: an open finalization of
\* a balance purchase has its deduction committed, and every row belongs to
\* a flow that claimed its product and, paying by balance, was charged and
\* not refunded
PurchaseRowsArePaid ==
    /\ \A f \in Flows :
         (tx.owner = f /\ flows[f].kind = "balance")
         => flows[f].db_balance_deducted
    /\ \A i \in DOMAIN purchases :
         \E f \in Flows :
            /\ Claimed(f, purchases[i].product_id)
            /\ flows[f].user_id = purchases[i].user_id
            /\ flows[f].kind = "balance"
                 => flows[f].db_balance_deducted /\ flows[f].refund = "none"

\* how the purchase rows change in a step: only by the commit of the
\* finalization that holds the transaction, and only by rows added behind
\* the existing ones
PurchaseRowsOnlyAppended ==
    purchases' # purchases
    => /\ \E f \in Flows : CommitStep(f) /\ tx.owner = f /\ tx'.owner = 0
       /\ Len(purchases') > Len(purchases)
       /\ SubSeq(purchases', 1, Len(purchases)) = purchases

\* C25: purchase rows are inserted only by the commit of a finalization
\* transaction; for a balance payment that transaction is opened only after
\* the deduction committed, no row exists for a flow whose deduction did
\* not commit (or was refunded), and rows are never changed or removed.
C25_RowsOnlyAfterPaymentSecured ==
    /\ []PurchaseRowsArePaid
    /\ [][PurchaseRowsOnlyAppended]_vars

\* one balance purchase committed its rows while another, whose deduction
\* met a database failure, ended without any
C25_Witness ==
    \E f, g \in Flows :
        /\ flows[f].kind = "balance" /\ flows[f].result = "True"
        /\ \E i \in DOMAIN purchases : purchases[i].user_id = flows[f].user_id
        /\ flows[g].kind = "balance" /\ Done(g)
        /\ flows[g].user_id # flows[f].user_id
        /\ ~flows[g].db_balance_deducted /\ flows[g].released
        /\ flows[g].amount_to_deduct <= InitBalance
        /\ \A i \in DOMAIN purchases : purchases[i].user_id # flows[g].user_id

\* C26: every product row a worker flow inserted, single or bulk, has
\* available = 1, reserved = 0 and a price p with 0 < p <= 10000.
C26_WorkerRowsHaveValidPrice ==
    \A i \in DOMAIN added_products :
        /\ added_products[i].available = 1
        /\ added_products[i].reserved = 0
        /\ added_products[i].price.kind = "finite"
        /\ added_products[i].price.cents > 0
        /\ added_products[i].price.cents <= MaxWorkerPrice

\* the pickup details of product p were handed to the chat by flow f
PickupSent(f, p) ==
    \E i \in DOMAIN outbox[f] :
        outbox[f][i] = Msg(flows[f].user_id, "pickup_details", p)

\* C27 as claimed: once a finalization has succeeded, every product row it
\* claimed is deleted.
C27_ClaimedRowsAlwaysDeleted ==
    \A f \in Flows :
        flows[f].finalize_success = "ok"
        => \A p \in Range(flows[f].processed_product_ids) :
              p \notin DOMAIN products

\* the claimed rows of a finalization that returned success: all deleted, or
\* all left in place and sold when the DELETE failed
ClaimedRowsDeletedUnlessDeleteFails ==
    \A f \in Flows :
        flows[f].finalize_success = "ok"
        => /\ flows[f].deleted \in {"ok", "failed"}
           /\ flows[f].deleted = "ok"
                => \A p \in Range(flows[f].processed_product_ids) :
                      p \notin DOMAIN products
           /\ flows[f].deleted = "failed"
                => \A p \in Range(flows[f].processed_product_ids) :
                      p \in DOMAIN products /\ products[p].available = 0

\* a product row disappears only in the cleanup step of a finalization that
\* claimed it, after that flow handed out its pickup details
RowsDeletedOnlyAfterDelivery ==
    \A p \in DOMAIN products \ DOMAIN products' :
        \E f \in Flows :
            /\ flows[f].pc = "fin_deliver" /\ flows'[f].pc = "fin_done"
            /\ Claimed(f, p)
            /\ PickupSent(f, p)

\* C27: after a successful finalization the rows it claimed are deleted
\* unless the DELETE itself fails, which leaves all of them in place with
\* available = 0; a row is deleted only after its pickup details were handed
\* to the chat, and only rows the finalization claimed are deleted by it.
C27_ClaimedRowsDeletedAfterDelivery ==
    /\ []ClaimedRowsDeletedUnlessDeleteFails
    /\ [][RowsDeletedOnlyAfterDelivery]_vars

\* a finalization skipped one item of its snapshot, claimed and deleted the
\* other, and the skipped item's row is still there
C27_Witness ==
    \E f \in Flows :
        /\ flows[f].finalize_success = "ok" /\ flows[f].deleted = "ok"
        /\ Len(flows[f].basket_snapshot) = 2
        /\ Len(flows[f].processed_product_ids) = 1
        /\ \A p \in Range(flows[f].processed_product_ids) : p \notin DOMAIN products
        /\ \E p \in Range(flows[f].basket_snapshot) :
              p \in DOMAIN products /\ ~Claimed(f, p)

\* what the balance of its user lost to flow f: the deduction, unless it
\* was refunded
ChargedTo(f) ==
    IF DeductionInEffect(f) THEN flows[f].amount_to_deduct ELSE 0

\* the sum of price_paid over the purchase rows flow f inserted
PaidInRows(f) ==
    IF flows[f].fin_wrote
    THEN SeqSum([i \in DOMAIN flows[f].purchases_to_insert |->
                    flows[f].purchases_to_insert[i].price_paid])
    ELSE 0

\* C28: with no reseller discount and no discount code, once
\* process_purchase_with_balance has returned, the amount the user's balance
\* was reduced by equals the sum of price_paid over the rows the flow
\* inserted, also when only some of the snapshot items were claimed.
C28_ChargedWhatWasBought ==
    \A f \in Flows :
        (/\ Done(f) /\ flows[f].kind = "balance"
         /\ flows[f].discount_code_used = NoCode
         /\ \A i \in DOMAIN flows[f].discounts : flows[f].discounts[i] = 0)
        => ChargedTo(f) = PaidInRows(f)

\* C29: a credit that returned False left the balance as it was: no call
\* reports failure after its own UPDATE was committed
C29_FalseMeansBalanceUnchanged ==
    \A k \in Credits :
        credits[k].result = "False" => ~credits[k].committed

\* C30: one stored payment context yields at most one gateway invoice and
\* at most one pending deposit, also when the crypto-selection callback
\* arrives twice and the two handlers interleave; once a handler that was
\* given a crypto choice has returned, the snapshot, total, discount code
\* and state keys are gone from the session.
C30_OneInvoicePerPaymentContext ==
    LET \* the purchase invoices issued and the pending purchase deposits
        \* recorded for a user's payment context, which is stored once,
        \* before the callback arrives
        InvoicesFor(u) ==
            {c \in Calls : /\ calls[c].user_id = u /\ calls[c].is_purchase
                           /\ calls[c].payment_id # 0}
        DepositsFor(u) ==
            {i \in DOMAIN pending_deposits :
                /\ pending_deposits[i].user_id = u
                /\ pending_deposits[i].is_purchase} IN
    /\ \A u \in Users :
         /\ Cardinality(InvoicesFor(u)) <= 1
         /\ Cardinality(DepositsFor(u)) <= 1
    /\ \A c \in Calls :
         (/\ calls[c].pc = "done" /\ calls[c].is_purchase
          /\ calls[c].error # "missing_params")
         => DOMAIN user_data[calls[c].user_id] \cap BasketPayKeys = {}

\* C31: every pending purchase invoice that was shown to its user stays
\* cancellable by that user: while its pending deposit is on record, the
\* session's pending_payment_id names it, or a cancel that took the id out
\* of the session is about to remove it.
C31_PendingInvoiceStaysCancellable ==
    \A i \in DOMAIN pending_deposits :
        LET u == pending_deposits[i].user_id IN
        (/\ pending_deposits[i].is_purchase
         /\ \E c \in Calls : /\ calls[c].pc = "done" /\ calls[c].error = "none"
                             /\ calls[c].payment_id = i)
        => \/ /\ Has(user_data[u], "pending_payment_id")
              /\ user_data[u]["pending_payment_id"] = i
           \/ \E k \in Cancels : /\ cancels[k].pc = "remove"
                                 /\ cancels[k].payment_id = Some(i)

\* C32: in a finalization that succeeded, the success title is handed to the
\* chat once and before any item, every claimed product gets its pickup
\* details once, after all of that product's media and also when a media
\* send failed, and the thank-you message comes once, after every item.
C32_PickupTextFollowsMedia ==
    \A f \in Flows :
        flows[f].finalize_success = "ok"
        => LET box == outbox[f]
               At(text, pid) ==
                   {i \in DOMAIN box : box[i] = Msg(flows[f].user_id, text, pid)}
               MediaOf(pid) ==
                   {i \in DOMAIN box : /\ box[i].pid = pid
                                       /\ box[i].text \in {"media_group", "animation"}} IN
           /\ Cardinality(At("purchase_success", 0)) = 1
           /\ Cardinality(At("thank_you", 0)) = 1
           /\ \A p \in Range(flows[f].processed_product_ids) :
                /\ Cardinality(At("pickup_details", p)) = 1
                /\ \A i \in At("pickup_details", p) :
                     /\ \A t \in At("purchase_success", 0) : t < i
                     /\ \A t \in At("thank_you", 0) : i < t
                     /\ \A j \in MediaOf(p) :
                          /\ j < i
                          /\ \A t \in At("purchase_success", 0) : t < j

\* a finalization that claimed product 1 alone, read its media, met a
\* failure while sending them, and still handed over the pickup details
C32_Witness ==
    \E f \in Flows :
        /\ flows[f].finalize_success = "ok"
        /\ flows[f].processed_product_ids = <<1>>
        /\ 1 \in DOMAIN flows[f].media_details
        /\ flows[f].media_details[1] # <<>>
        /\ flows[f].post_fault /\ flows[f].deleted = "ok"
        /\ PickupSent(f, 1)
        /\ \E i \in DOMAIN outbox[f] : outbox[f][i].text = "animation"

\* C33: for every user, total_purchases and the number of the user's
\* purchase rows move together: a finalization that commits adds the number
\* of rows it inserts to the counter in the same commit, and one that fails
\* changes neither, so their difference (zero at the start) never changes.
C33_CounterMatchesPurchaseRows ==
    /\ \A u \in DOMAIN users :
         users[u].total_purchases =
             Cardinality({i \in DOMAIN purchases : purchases[i].user_id = u})
    /\ \A f \in Flows :
         flows[f].finalize_success = "fail" => ~flows[f].fin_wrote

\* one finalization committed two rows and raised the counter by two, and
\* another finalization failed
C33_Witness ==
    \E f, g \in Flows :
        /\ flows[f].finalize_success = "ok"
        /\ Len(flows[f].purchases_to_insert) = 2
        /\ users[flows[f].user_id].total_purchases = 2
        /\ flows[g].finalize_success = "fail"

\* C34: an update whose sender is_worker refuses changes neither the
\* session data nor the product rows, whichever worker handler it reaches
\* and whatever the session holds at that moment.
C34_NonWorkerHasNoEffect ==
    [][~worker_update'.is_worker
       => /\ worker_data' = worker_data
          /\ added_products' = added_products]_vars

\* a drop was entered in full, then the confirm callback came from a sender
\* who is not a worker: nothing was inserted and the session is as it was
C34_Witness ==
    /\ ~worker_update.is_worker
    /\ ~MissingData(worker_data)
    /\ added_products = <<>>
    /\ \E k \in WorkerCalls :
         /\ worker_calls[k].handler = "handle_worker_confirm_add_drop"
         /\ worker_calls[k].result = "denied"

\* C35: handle_worker_confirm_add_drop writes a product row only for a
\* session that holds a size and a price; the invocation that commits
\* appends exactly one row and leaves the session without the drop; and no
\* two invocations, repeated or overlapping, insert the same entered drop.
C35_EnteredDropInsertedOnce ==
    /\ [][\A k \in WorkerCalls :
            LET cl == worker_calls'[k] IN
            /\ (/\ worker_calls[k].pc = "idle"
                /\ cl.handler = "handle_worker_confirm_add_drop"
                /\ cl.pc = "media" \/ cl.result = "added")
               => ~MissingData(worker_data)
            /\ (/\ worker_calls[k].pc # "done"
                /\ cl.handler = "handle_worker_confirm_add_drop"
                /\ cl.result = "added")
               => /\ Len(added_products') = Len(added_products) + 1
                  /\ MissingData(worker_data')]_vars
    /\ [](\A k, l \in WorkerCalls :
            (/\ k # l
             /\ worker_calls[k].handler = "handle_worker_confirm_add_drop"
             /\ worker_calls[l].handler = "handle_worker_confirm_add_drop"
             /\ worker_calls[k].result = "added"
             /\ worker_calls[l].result = "added")
            => worker_calls[k].drop # worker_calls[l].drop)

\* the confirm callback was delivered twice for one entered drop: one
\* invocation inserted it, the other met the open transaction of the first
C35_Witness ==
    \E k, l \in WorkerCalls :
        /\ worker_calls[k].handler = "handle_worker_confirm_add_drop"
        /\ worker_calls[l].handler = "handle_worker_confirm_add_drop"
        /\ worker_calls[k].result = "added"
        /\ worker_calls[l].result = "db_error" /\ worker_calls[l].locked
        /\ worker_calls[k].drop = worker_calls[l].drop
        /\ Len(added_products) = 1

\* C36: when handle_worker_bulk_process returns, either every drop collected
\* in the session got exactly one product row, in order, and the bulk keys
\* and the state are gone from the session, or (database error) no row of
\* the batch is in the table and the session is as it was; an invocation
\* that finds no list, or is refused, changes nothing.
C36_BulkProcessAllOrNothing ==
    [][\A k \in WorkerCalls :
         LET cl == worker_calls'[k]
             drops == worker_data.worker_bulk_drops IN
         (/\ worker_calls[k].pc # "done" /\ cl.pc = "done"
          /\ cl.handler = "handle_worker_bulk_process")
         => \/ /\ cl.result = "added"
               /\ added_products' =
                      added_products
                      \o [i \in DOMAIN drops |-> ProductRow(drops[i].price)]
               /\ worker_data'.worker_bulk_drops = <<>>
               /\ ~worker_data'.worker_bulk_product_type
               /\ worker_data'.state = "none"
            \/ /\ cl.result \in {"db_error", "missing", "denied"}
               /\ added_products' = added_products
               /\ worker_data' = worker_data]_vars

\* C37: once a worker has pressed Cancel (the callback worker_panel), the
\* session has no pending input state, so that no later chat message is
\* taken as drop input.
C37_CancelLeavesNoPendingInput ==
    (worker_update.worker_panel /\ worker_update.is_worker)
    => worker_data.state = "none"

====
